---- MODULE Spec2Model ----
(***************************************************************************)
(* A model of src/app.py: the Flask request handlers that bridge one       *)
(* paramiko SSH/SFTP connection (global_ssh_client, global_sftp_client) to *)
(* HTTP requests, and the remote filesystem those handlers act on.         *)
(*                                                                         *)
(* Strings are sequences of one-character strings, so that os.path.join,   *)
(* os.path.dirname, os.path.basename and sanitize_path are computed as     *)
(* Python computes them (posixpath).  The remote host is a POSIX machine:  *)
(* "/" separates path components and a backslash is an ordinary character  *)
(* of a name.                                                              *)
(***************************************************************************)
EXTENDS Integers, Sequences, FiniteSets, TLC

VARIABLES
    global_ssh_client,   \* src/app.py:33   "None" or "ssh"
    global_sftp_client,  \* src/app.py:34   "None" or "sftp"
    link,                \* the transport under the two handles: "up" or "down"
    fs,                  \* the remote filesystem: node -> [kind, data]
    denied,              \* remote nodes whose removal the remote refuses
    localTmp,            \* local temporary files of uploads that still exist
    req,                 \* the last request, and the remote state it met
    resp,                \* what the last request returned to the gateway
    saved,               \* the last successful save, while nothing else has written
    server_running,      \* ControlDialog.server_running (src/app.py:1376)
    flask_server,        \* src/app.py:35   the thread whose server it is, or NoThread
    server_thread,       \* src/app.py:36   a thread, or NoThread
    thread,              \* each thread of start_flask_server: where it stands
    port,                \* each thread's port
    task,                \* each serving thread's request in progress
    stream,              \* the streamed command whose generator was made last
    streams,             \* each serving thread's streamed command
    once,                \* the command terminal_execute() runs to its end
    login                \* what LoginDialog shows, and how it got there

\* the control dialog, the threads of the web server and what they stream
serve ==
    <<server_running, flask_server, server_thread, thread, port, task, stream, streams, once>>

vars == <<global_ssh_client, global_sftp_client, link, fs, denied, localTmp, req, resp, saved,
          server_running, flask_server, server_thread, thread, port, task, stream, streams,
          once, login>>

(***************************************************************************)
(* Bounds of the model.                                                    *)
(***************************************************************************)
MaxNodes == 3
MaxDepth == 3
MaxTmp == 2
MaxTextLen == 2
MaxThreads == 2

(***************************************************************************)
(* Characters and strings.                                                 *)
(***************************************************************************)
SLASH == "/"
BACKSLASH == "\\"

\* ord(c) of the characters the model uses
CharCode(c) ==
    CASE c = "/" -> 47
      [] c = "B" -> 66
      [] c = "\\" -> 92
      [] c = "a" -> 97
      [] c = "b" -> 98
      [] c = "c" -> 99
      [] OTHER -> 0

\* str.lower() on one character
LowerChar(c) == IF c = "B" THEN "b" ELSE c

\* str.lower()
Lower(s) == [i \in 1..Len(s) |-> LowerChar(s[i])]

\* s < t for Python strings: lexicographic by code point
RECURSIVE StrLess(_, _)
StrLess(s, t) ==
    IF t = <<>> THEN FALSE
    ELSE IF s = <<>> THEN TRUE
    ELSE IF CharCode(Head(s)) # CharCode(Head(t))
         THEN CharCode(Head(s)) < CharCode(Head(t))
    ELSE StrLess(Tail(s), Tail(t))

\* s.rfind("/") + 1: the length of the prefix that ends at the last slash
RECURSIVE RFindSlash1(_)
RFindSlash1(s) ==
    IF s = <<>> THEN 0
    ELSE IF s[Len(s)] = SLASH THEN Len(s)
    ELSE RFindSlash1(SubSeq(s, 1, Len(s) - 1))

\* s.rstrip("/")
RECURSIVE RStripSlash(_)
RStripSlash(s) ==
    IF s # <<>> /\ s[Len(s)] = SLASH THEN RStripSlash(SubSeq(s, 1, Len(s) - 1))
    ELSE s

AllSlashes(s) == \A i \in 1..Len(s) : s[i] = SLASH

\* sanitize_path(path): path.replace("\\", "/")
sanitize_path(path) ==
    [i \in 1..Len(path) |-> IF path[i] = BACKSLASH THEN SLASH ELSE path[i]]

\* posixpath.join(a, b)
path_join(a, b) ==
    IF b # <<>> /\ b[1] = SLASH THEN b
    ELSE IF a = <<>> \/ a[Len(a)] = SLASH THEN a \o b
    ELSE a \o <<SLASH>> \o b

\* posixpath.dirname(p)
path_dirname(p) ==
    LET head == SubSeq(p, 1, RFindSlash1(p))
    IN  IF head # <<>> /\ ~AllSlashes(head) THEN RStripSlash(head) ELSE head

\* posixpath.basename(p)
path_basename(p) == SubSeq(p, RFindSlash1(p) + 1, Len(p))

(***************************************************************************)
(* The remote filesystem.  A node is the sequence of the names on the way  *)
(* from the root; fs maps the existing nodes to [kind, data].              *)
(***************************************************************************)
RootNode == <<>>

\* the remote's reading of a path string: split at "/", empty parts dropped
RECURSIVE Components(_, _)
Components(s, cur) ==
    IF s = <<>> THEN (IF cur = <<>> THEN <<>> ELSE <<cur>>)
    ELSE IF Head(s) = SLASH
         THEN (IF cur = <<>> THEN <<>> ELSE <<cur>>) \o Components(Tail(s), <<>>)
    ELSE Components(Tail(s), Append(cur, Head(s)))

\* a relative path is read from the login directory, here the root
NodeOf(s) == Components(s, <<>>)

Exists(f, n) == n \in DOMAIN f
IsDir(f, n) == Exists(f, n) /\ f[n].kind = "dir"
IsFile(f, n) == Exists(f, n) /\ f[n].kind = "file"
ParentNode(n) == SubSeq(n, 1, Len(n) - 1)
IsPrefix(a, b) == Len(a) <= Len(b) /\ SubSeq(b, 1, Len(a)) = a
ChildrenOf(f, n) == {m \in DOMAIN f : Len(m) = Len(n) + 1 /\ IsPrefix(n, m)}
Under(f, n) == {m \in DOMAIN f : Len(m) > Len(n) /\ IsPrefix(n, m)}

\* path s, which the remote reads as node n, names an entry: a path with a
\* trailing slash names only a directory
NamesNode(f, s, n) ==
    /\ s # <<>>
    /\ n \in DOMAIN f
    /\ (s[Len(s)] = SLASH => f[n].kind = "dir")

Names(f, s) == NamesNode(f, s, NodeOf(s))

InBounds(f) ==
    /\ Cardinality(DOMAIN f) <= MaxNodes + 1
    /\ \A n \in DOMAIN f : Len(n) <= MaxDepth

\* f with node n set to entry e
Put(f, n, e) == [m \in (DOMAIN f) \cup {n} |-> IF m = n THEN e ELSE f[m]]
\* f without the nodes of gone
Drop(f, gone) == [m \in (DOMAIN f) \ gone |-> f[m]]
\* f with the subtree at node a moved to node b
Move(f, a, b) ==
    LET moved == {a} \cup Under(f, a)
        to(m) == b \o SubSeq(m, Len(a) + 1, Len(m))
        kept == (DOMAIN f) \ moved
    IN  [m \in kept \cup {to(x) : x \in moved} |->
            IF m \in kept THEN f[m]
            ELSE f[CHOOSE x \in moved : to(x) = m]]

(***************************************************************************)
(* paramiko's SFTPClient as the handlers use it.  h is the handle the      *)
(* handler holds and up tells whether its transport still works; every     *)
(* call returns [ok, err, ...]: ok = FALSE is the exception the call       *)
(* raises, err the text of str(e).                                         *)
(***************************************************************************)
NoneType == "'NoneType' object has no attribute"
SocketClosed == "Socket is closed"
NoSuchFile == "[Errno 2] No such file"
PermissionDenied == "[Errno 13] Permission denied"
Failure == "Failure"

\* the error of a call that never reaches the remote filesystem, or ""
CallError(h, up) ==
    IF h = "None" THEN NoneType ELSE IF ~up THEN SocketClosed ELSE ""

Raise(e, f) == [ok |-> FALSE, err |-> e, fs |-> f, kind |-> "", data |-> <<>>, entries |-> <<>>]
Return(f) == [ok |-> TRUE, err |-> "", fs |-> f, kind |-> "", data |-> <<>>, entries |-> <<>>]

\* SFTPClient.stat(path)
SftpStat(h, up, f, p) ==
    LET e == CallError(h, up)
        n == NodeOf(p)
    IN  IF e # "" THEN Raise(e, f)
        ELSE IF ~NamesNode(f, p, n) THEN Raise(NoSuchFile, f)
        ELSE [Return(f) EXCEPT !.kind = f[n].kind]

\* st_size of an entry
SizeOf(e) == IF e.kind = "file" THEN Len(e.data) ELSE 0

\* the attributes the remote reports for node m
AttrOf(f, m) == [filename |-> m[Len(m)], kind |-> f[m].kind, st_size |-> SizeOf(f[m])]

\* the nodes of ord that are children of node n, in ord's order
ChildrenIn(f, n, ord) ==
    SelectSeq(ord, LAMBDA m : m \in DOMAIN f /\ Len(m) = Len(n) + 1 /\ IsPrefix(n, m))

\* SFTPClient.listdir_attr(path): the entries of the directory, in the order the
\* remote returns them: ord, an enumeration of the remote's nodes
SftpListdirAttr(h, up, f, p, ord) ==
    LET e == CallError(h, up)
        n == NodeOf(p)
    IN  IF e # "" THEN Raise(e, f)
        ELSE IF ~NamesNode(f, p, n) THEN Raise(NoSuchFile, f)
        ELSE IF f[n].kind # "dir" THEN Raise(Failure, f)
        ELSE LET kids == ChildrenIn(f, n, ord)
             IN  [Return(f) EXCEPT !.entries = [i \in 1..Len(kids) |-> AttrOf(f, kids[i])]]

\* the orders in which the remote can enumerate the nodes of S
RECURSIVE Orders(_)
Orders(S) ==
    IF S = {} THEN {<<>>}
    ELSE UNION {{<<x>> \o o : o \in Orders(S \ {x})} : x \in S}

\* SFTPClient.remove(path)
SftpRemove(h, up, f, d, p) ==
    LET e == CallError(h, up)
        n == NodeOf(p)
    IN  IF e # "" THEN Raise(e, f)
        ELSE IF ~NamesNode(f, p, n) THEN Raise(NoSuchFile, f)
        ELSE IF f[n].kind = "dir" THEN Raise(Failure, f)
        ELSE IF n \in d THEN Raise(PermissionDenied, f)
        ELSE Return(Drop(f, {n}))

\* SFTPClient.rmdir(path)
SftpRmdir(h, up, f, d, p) ==
    LET e == CallError(h, up)
        n == NodeOf(p)
    IN  IF e # "" THEN Raise(e, f)
        ELSE IF ~NamesNode(f, p, n) THEN Raise(NoSuchFile, f)
        ELSE IF f[n].kind # "dir" THEN Raise(Failure, f)
        ELSE IF n = RootNode \/ ChildrenOf(f, n) # {} THEN Raise(Failure, f)
        ELSE IF n \in d THEN Raise(PermissionDenied, f)
        ELSE Return(Drop(f, {n}))

\* SFTPClient.mkdir(path)
SftpMkdir(h, up, f, p) ==
    LET e == CallError(h, up)
        n == NodeOf(p)
    IN  IF e # "" THEN Raise(e, f)
        ELSE IF p = <<>> \/ n = RootNode \/ Exists(f, n) THEN Raise(Failure, f)
        ELSE IF ~IsDir(f, ParentNode(n)) THEN Raise(NoSuchFile, f)
        ELSE Return(Put(f, n, [kind |-> "dir", data |-> <<>>]))

\* SFTPClient.open(path, "w"): the file is created, or truncated
SftpOpenW(h, up, f, p) ==
    LET e == CallError(h, up)
        n == NodeOf(p)
    IN  IF e # "" THEN Raise(e, f)
        ELSE IF p = <<>> THEN Raise(NoSuchFile, f)
        ELSE IF IsDir(f, n) THEN Raise(Failure, f)
        ELSE IF p[Len(p)] = SLASH \/ n = RootNode THEN Raise(NoSuchFile, f)
        ELSE IF ~IsFile(f, n) /\ ~IsDir(f, ParentNode(n)) THEN Raise(NoSuchFile, f)
        ELSE Return(Put(f, n, [kind |-> "file", data |-> <<>>]))

\* SFTPFile.write(data) on the file opened at path p, and its close
SftpWrite(h, up, f, p, bytes) ==
    LET e == CallError(h, up)
        n == NodeOf(p)
    IN  IF e # "" THEN Raise(e, f)
        ELSE IF ~IsFile(f, n) THEN Raise(Failure, f)
        ELSE Return(Put(f, n, [kind |-> "file", data |-> f[n].data \o bytes]))

\* SFTPClient.open(path, "r") and SFTPFile.read()
SftpRead(h, up, f, p) ==
    LET e == CallError(h, up)
        n == NodeOf(p)
    IN  IF e # "" THEN Raise(e, f)
        ELSE IF ~NamesNode(f, p, n) THEN Raise(NoSuchFile, f)
        ELSE IF f[n].kind # "file" THEN Raise(Failure, f)
        ELSE [Return(f) EXCEPT !.data = f[n].data]

\* SFTPClient.posix_rename(old, new): an existing file at new is replaced
SftpPosixRename(h, up, f, old, new) ==
    LET e == CallError(h, up)
        a == NodeOf(old)
        b == NodeOf(new)
    IN  IF e # "" THEN Raise(e, f)
        ELSE IF ~NamesNode(f, old, a) \/ new = <<>> THEN Raise(NoSuchFile, f)
        ELSE IF a = RootNode \/ IsPrefix(a, b) THEN Raise(Failure, f)
        ELSE IF IsDir(f, b) THEN Raise(Failure, f)
        ELSE IF b = RootNode \/ ~IsDir(f, ParentNode(b)) THEN Raise(NoSuchFile, f)
        ELSE Return(Move(Drop(f, {b}), a, b))

\* SFTPClient.rename(old, new): the remote refuses when new exists
SftpRename(h, up, f, old, new) ==
    LET e == CallError(h, up)
        a == NodeOf(old)
        b == NodeOf(new)
    IN  IF e # "" THEN Raise(e, f)
        ELSE IF ~NamesNode(f, old, a) \/ new = <<>> THEN Raise(NoSuchFile, f)
        ELSE IF Exists(f, b) THEN Raise(Failure, f)
        ELSE IF a = RootNode \/ IsPrefix(a, b) THEN Raise(Failure, f)
        ELSE IF ~IsDir(f, ParentNode(b)) THEN Raise(NoSuchFile, f)
        ELSE IF f[a].kind = "file" /\ new[Len(new)] = SLASH THEN Raise(Failure, f)
        ELSE Return(Move(f, a, b))

(***************************************************************************)
(* What a handler returns.  status is "ok" or "error" for the jsonify      *)
(* envelope, "text" for a plain-text body, "file" for send_file, "stream"  *)
(* for a streamed Response and "raised" when an exception leaves the       *)
(* handler.  calls lists the remote calls the handler made.                *)
(***************************************************************************)
NoResp ==
    [op |-> "", status |-> "", code |-> 0, message |-> "",
     directories |-> <<>>, files |-> <<>>, content |-> <<>>,
     body |-> <<>>, archive |-> <<>>, download_name |-> <<>>, calls |-> <<>>, tmp |-> 0]

Jsonify(op, status, message, calls) ==
    [NoResp EXCEPT !.op = op, !.status = status, !.code = 200,
                   !.message = message, !.calls = calls]

Call(fn, path, r) == [fn |-> fn, path |-> path, ok |-> r.ok, err |-> r.err, to |-> <<>>]

\* `if not global_sftp_client`, `if not global_ssh_client`
NotConnected_never(client) == FALSE
NotConnected(client) == client = "None"

\* format_size(sz)
format_size(sz) == IF sz >= 0 THEN sz ELSE 0

\* list.sort(key=lambda x: x["name"].lower()): a stable sort
InsertByName_raw(x, sorted) ==
    LET before == {i \in 1..Len(sorted) : ~StrLess(x.name, sorted[i].name)}
        k == Cardinality(before)
    IN  SubSeq(sorted, 1, k) \o <<x>> \o SubSeq(sorted, k + 1, Len(sorted))
InsertByName(x, sorted) ==
    LET before == {i \in 1..Len(sorted) :
                      ~StrLess(Lower(x.name), Lower(sorted[i].name))}
        k == Cardinality(before)
    IN  SubSeq(sorted, 1, k) \o <<x>> \o SubSeq(sorted, k + 1, Len(sorted))

RECURSIVE SortByName(_)
SortByName(items) ==
    IF items = <<>> THEN <<>>
    ELSE InsertByName(items[Len(items)], SortByName(SubSeq(items, 1, Len(items) - 1)))

\* the item ajax_list builds for one entry of the directory at path
ListItem(path, a) ==
    [name |-> a.filename,
     path |-> sanitize_path(path_join(path, a.filename)),
     size |-> format_size(a.st_size)]

ItemsOfKind(path, attrs, dir) ==
    LET sel == SelectSeq(attrs, LAMBDA a : (a.kind = "dir") = dir)
    IN  [i \in 1..Len(sel) |-> ListItem(path, sel[i])]

\* ajax_list(): the response; ord is the order in which the remote enumerates
ajax_list_hiding_errors(sftp, up, f, path, ord) ==
    IF NotConnected(sftp) THEN Jsonify("list", "error", "SFTP client not connected!", <<>>)
    ELSE LET r == SftpListdirAttr(sftp, up, f, path, ord)
             log == <<Call("listdir_attr", path, r)>>
         IN  IF ~r.ok THEN Jsonify("list", "ok", "", log)
             ELSE [Jsonify("list", "ok", "", log) EXCEPT
                      !.directories = SortByName(ItemsOfKind(path, r.entries, TRUE)),
                      !.files = SortByName(ItemsOfKind(path, r.entries, FALSE))]

ajax_list(sftp, up, f, path, ord) ==
    IF NotConnected(sftp) THEN Jsonify("list", "error", "SFTP client not connected!", <<>>)
    ELSE LET r == SftpListdirAttr(sftp, up, f, path, ord)
             log == <<Call("listdir_attr", path, r)>>
         IN  IF ~r.ok THEN Jsonify("list", "error", r.err, log)
             ELSE [Jsonify("list", "ok", "", log) EXCEPT
                      !.directories = SortByName(ItemsOfKind(path, r.entries, TRUE)),
                      !.files = SortByName(ItemsOfKind(path, r.entries, FALSE))]

(***************************************************************************)
(* UTF-8.  A text is a sequence of code points, a file a sequence of       *)
(* bytes.                                                                  *)
(***************************************************************************)
REPLACEMENT == 65533

\* str.encode("utf-8") of one code point (no surrogate reaches a handler:
\* the gateway decodes form fields from UTF-8)
EncodeCodePoint(cp) ==
    IF cp < 128 THEN <<cp>>
    ELSE IF cp < 2048 THEN <<192 + (cp \div 64), 128 + (cp % 64)>>
    ELSE IF cp < 65536
         THEN <<224 + (cp \div 4096), 128 + ((cp \div 64) % 64), 128 + (cp % 64)>>
    ELSE <<240 + (cp \div 262144), 128 + ((cp \div 4096) % 64),
           128 + ((cp \div 64) % 64), 128 + (cp % 64)>>

\* str.encode("utf-8")
RECURSIVE Utf8Encode(_)
Utf8Encode(text) ==
    IF text = <<>> THEN <<>> ELSE EncodeCodePoint(Head(text)) \o Utf8Encode(Tail(text))

IsCont(b) == b >= 128 /\ b <= 191

\* the continuation bytes a lead byte needs
NeedCont(b) ==
    IF b >= 194 /\ b <= 223 THEN 1
    ELSE IF b >= 224 /\ b <= 239 THEN 2
    ELSE IF b >= 240 /\ b <= 244 THEN 3
    ELSE 0

\* whether b2 may follow the lead byte b1 (no overlong form, no surrogate)
SecondOk(b1, b2) ==
    /\ IsCont(b2)
    /\ (b1 = 224 => b2 >= 160)
    /\ (b1 = 237 => b2 <= 159)
    /\ (b1 = 240 => b2 >= 144)
    /\ (b1 = 244 => b2 <= 143)

\* how many of the bytes after the lead byte continue its sequence
ContRun(bytes, need) ==
    LET okAt(i) == i + 1 <= Len(bytes)
                   /\ (IF i = 1 THEN SecondOk(bytes[1], bytes[2]) ELSE IsCont(bytes[i + 1]))
    IN  Cardinality({k \in 1..need : \A i \in 1..k : okAt(i)})

CodePointOf(bytes, need) ==
    IF need = 1 THEN (bytes[1] - 192) * 64 + (bytes[2] - 128)
    ELSE IF need = 2
         THEN (bytes[1] - 224) * 4096 + (bytes[2] - 128) * 64 + (bytes[3] - 128)
    ELSE (bytes[1] - 240) * 262144 + (bytes[2] - 128) * 4096
            + (bytes[3] - 128) * 64 + (bytes[4] - 128)

\* bytes.decode("utf-8") as Latin-1 would read them: one code point per byte
Utf8Decode_bytewise(bytes) == bytes
\* bytes.decode("utf-8", errors="replace")
RECURSIVE Utf8Decode(_)
Utf8Decode(bytes) ==
    IF bytes = <<>> THEN <<>>
    ELSE IF bytes[1] < 128 THEN <<bytes[1]>> \o Utf8Decode(Tail(bytes))
    ELSE LET need == NeedCont(bytes[1])
             run == IF need = 0 THEN 0 ELSE ContRun(bytes, need)
         IN  IF need > 0 /\ run = need
             THEN <<CodePointOf(bytes, need)>>
                    \o Utf8Decode(SubSeq(bytes, need + 2, Len(bytes)))
             ELSE <<REPLACEMENT>> \o Utf8Decode(SubSeq(bytes, run + 2, Len(bytes)))

\* ajax_file()
ajax_file(sftp, up, f, path) ==
    IF NotConnected(sftp) THEN Jsonify("file", "error", "SFTP client not connected!", <<>>)
    ELSE IF path = <<>> THEN Jsonify("file", "error", "No path provided", <<>>)
    ELSE LET r == SftpRead(sftp, up, f, path)
             log == <<Call("open_r", path, r)>>
         IN  IF ~r.ok THEN Jsonify("file", "error", r.err, log)
             ELSE [Jsonify("file", "ok", "", log) EXCEPT !.content = Utf8Decode(r.data)]

\* ajax_save(): [resp, fs]
ajax_save(sftp, up, f, path, content) ==
    IF NotConnected(sftp)
    THEN [resp |-> Jsonify("save", "error", "SFTP client not connected!", <<>>), fs |-> f]
    ELSE IF path = <<>>
    THEN [resp |-> Jsonify("save", "error", "No path provided", <<>>), fs |-> f]
    ELSE LET o == SftpOpenW(sftp, up, f, path)
             w == SftpWrite(sftp, up, o.fs, path, Utf8Encode(content))
         IN  IF ~o.ok
             THEN [resp |-> Jsonify("save", "error", o.err, <<Call("open_w", path, o)>>),
                   fs |-> o.fs]
             ELSE IF ~w.ok
             THEN [resp |-> Jsonify("save", "error", w.err,
                                    <<Call("open_w", path, o), Call("write", path, w)>>),
                   fs |-> w.fs]
             ELSE [resp |-> Jsonify("save", "ok", "File saved",
                                    <<Call("open_w", path, o), Call("write", path, w)>>),
                   fs |-> w.fs]

(***************************************************************************)
(* ajax_delete().  A run of remote calls is threaded through               *)
(* st = [ok, err, fs, log]: ok = FALSE once a call has raised, which ends  *)
(* the run (the exception travels up to the handler's except clause).      *)
(***************************************************************************)
Started(f) == [ok |-> TRUE, err |-> "", fs |-> f, log |-> <<>>]

\* st after the remote call fn on path returned r
After(st, fn, path, r) ==
    [ok |-> r.ok, err |-> r.err, fs |-> r.fs, log |-> Append(st.log, Call(fn, path, r))]

RECURSIVE delete_dir(_, _, _, _, _, _)
RECURSIVE delete_entries(_, _, _, _, _, _, _)

\* delete_dir(p) that leaves the emptied directory in place
delete_dir_no_rmdir(sftp, up, st, d, p, ord) ==
    LET l == SftpListdirAttr(sftp, up, st.fs, p, ord)
        listed == After(st, "listdir_attr", p, l)
    IN  IF ~l.ok THEN listed
        ELSE delete_entries(sftp, up, listed, d, p, l.entries, ord)

\* the loop of delete_dir with a failed removal skipped
delete_entries_skip_failed(sftp, up, st, d, p, entries, ord) ==
    IF entries = <<>> THEN st
    ELSE LET i == Head(entries)
             sp == sanitize_path(path_join(p, i.filename))
             done == IF i.kind = "dir" THEN delete_dir(sftp, up, st, d, sp, ord)
                     ELSE After(st, "remove", sp, SftpRemove(sftp, up, st.fs, d, sp))
         IN  delete_entries(sftp, up, [done EXCEPT !.ok = TRUE], d, p, Tail(entries), ord)

\* the loop of delete_dir over the listed entries (src/app.py:1097-1102)
delete_entries(sftp, up, st, d, p, entries, ord) ==
    IF entries = <<>> THEN st
    ELSE LET i == Head(entries)
             sp == sanitize_path(path_join(p, i.filename))
             done == IF i.kind = "dir" THEN delete_dir(sftp, up, st, d, sp, ord)
                     ELSE After(st, "remove", sp, SftpRemove(sftp, up, st.fs, d, sp))
         IN  IF ~done.ok THEN done
             ELSE delete_entries(sftp, up, done, d, p, Tail(entries), ord)

\* delete_dir(p) (src/app.py:1096-1103)
delete_dir(sftp, up, st, d, p, ord) ==
    LET l == SftpListdirAttr(sftp, up, st.fs, p, ord)
        listed == After(st, "listdir_attr", p, l)
        emptied == delete_entries(sftp, up, listed, d, p, l.entries, ord)
    IN  IF ~l.ok THEN listed
        ELSE IF ~emptied.ok THEN emptied
        ELSE After(emptied, "rmdir", p, SftpRmdir(sftp, up, emptied.fs, d, p))

\* ajax_delete(): [resp, fs]
ajax_delete(sftp, up, f, d, path, ord) ==
    IF NotConnected(sftp)
    THEN [resp |-> Jsonify("delete", "error", "SFTP client not connected!", <<>>), fs |-> f]
    ELSE IF path = <<>>
    THEN [resp |-> Jsonify("delete", "error", "No path provided", <<>>), fs |-> f]
    ELSE LET s == SftpStat(sftp, up, f, path)
             stated == After(Started(f), "stat", path, s)
             run == IF ~s.ok THEN stated
                    ELSE IF s.kind = "dir" THEN delete_dir(sftp, up, stated, d, path, ord)
                    ELSE After(stated, "remove", path, SftpRemove(sftp, up, f, d, path))
         IN  IF run.ok
             THEN [resp |-> Jsonify("delete", "ok", "Deleted", run.log), fs |-> run.fs]
             ELSE [resp |-> Jsonify("delete", "error", run.err, run.log), fs |-> run.fs]

\* the directory ajax_new_item and ajax_upload put the new entry in
\* (src/app.py:1120-1125, 1144-1149): [dir, log]
containing_dir_syntactic(sftp, up, f, parent_path) ==
    LET s == SftpStat(sftp, up, f, parent_path)
    IN  [dir |-> IF s.ok /\ s.kind = "dir" THEN parent_path ELSE path_dirname(parent_path),
         log |-> <<Call("stat", parent_path, s)>>]

containing_dir(sftp, up, f, parent_path) ==
    LET s == SftpStat(sftp, up, f, parent_path)
    IN  [dir |-> IF s.ok /\ s.kind # "dir" THEN path_dirname(parent_path) ELSE parent_path,
         log |-> <<Call("stat", parent_path, s)>>]

\* ajax_new_item(): [resp, fs]
ajax_new_item(sftp, up, f, parent_path, name, item_type) ==
    IF NotConnected(sftp)
    THEN [resp |-> Jsonify("new_item", "error", "SFTP not connected!", <<>>), fs |-> f]
    ELSE IF parent_path = <<>> \/ name = <<>>
    THEN [resp |-> Jsonify("new_item", "error", "Missing parameters", <<>>), fs |-> f]
    ELSE LET c == containing_dir(sftp, up, f, parent_path)
             full_path == sanitize_path(path_join(c.dir, name))
             st0 == [Started(f) EXCEPT !.log = c.log]
             made == IF item_type = "folder"
                     THEN After(st0, "mkdir", full_path, SftpMkdir(sftp, up, f, full_path))
                     ELSE LET o == After(st0, "open_w", full_path,
                                         SftpOpenW(sftp, up, f, full_path))
                          IN  IF ~o.ok THEN o
                              ELSE After(o, "write", full_path,
                                         SftpWrite(sftp, up, o.fs, full_path, <<>>))
         IN  IF made.ok
             THEN [resp |-> Jsonify("new_item", "ok",
                                    IF item_type = "folder" THEN "Folder created"
                                    ELSE "File created", made.log),
                   fs |-> made.fs]
             ELSE [resp |-> Jsonify("new_item", "error", made.err, made.log), fs |-> made.fs]

\* the destination ajax_rename computes (src/app.py:1293)
rename_target_in_root(old_path, new_name) ==
    sanitize_path(path_join(<<SLASH>>, new_name))
rename_target(old_path, new_name) ==
    sanitize_path(path_join(path_dirname(old_path), new_name))

\* the remote call of ajax_rename (src/app.py:1295)
rename_call_replacing(sftp, up, f, old_path, new_path) ==
    SftpPosixRename(sftp, up, f, old_path, new_path)
rename_call(sftp, up, f, old_path, new_path) ==
    SftpRename(sftp, up, f, old_path, new_path)

\* ajax_rename(): [resp, fs]
ajax_rename(sftp, up, f, old_path, new_name) ==
    IF NotConnected(sftp)
    THEN [resp |-> Jsonify("rename", "error", "SFTP not connected!", <<>>), fs |-> f]
    ELSE IF old_path = <<>> \/ new_name = <<>>
    THEN [resp |-> Jsonify("rename", "error", "Missing parameters", <<>>), fs |-> f]
    ELSE LET new_path == rename_target(old_path, new_name)
             r == rename_call(sftp, up, f, old_path, new_path)
             log == <<[fn |-> "rename", path |-> old_path, ok |-> r.ok, err |-> r.err,
                      to |-> new_path]>>
         IN  IF r.ok
             THEN [resp |-> Jsonify("rename", "ok", "Renamed successfully", log), fs |-> r.fs]
             ELSE [resp |-> Jsonify("rename", "error", r.err, log), fs |-> r.fs]

(***************************************************************************)
(* ajax_upload().  parts are the file parts of the request in the order of *)
(* request.files.keys(), each [filename, data]; tmp is the name            *)
(* tempfile.mktemp() returns; how tells how f.save(temp_path) ends:        *)
(* "ok", "failed" (nothing was created) or "partial" (the file was created *)
(* and the write then failed).  local is the set of temporary files that   *)
(* exist.  The result is [resp, fs, local].                                *)
(***************************************************************************)
SaveOutcomes == {"ok", "failed", "partial"}

\* the first part the loop of src/app.py:1151-1164 handles: `if f` is
\* bool(f.filename)
RECURSIVE FirstPart(_)
FirstPart(parts) ==
    IF parts = <<>> THEN <<>>
    ELSE IF Head(parts).filename # <<>> THEN <<Head(parts)>>
    ELSE FirstPart(Tail(parts))

\* SFTPClient.put(localpath, remotepath): open, write, close, and the stat that
\* confirms the size
SftpPut(sftp, up, st, remote_path, data) ==
    LET o == After(st, "open_w", remote_path, SftpOpenW(sftp, up, st.fs, remote_path))
        w == After(o, "write", remote_path, SftpWrite(sftp, up, o.fs, remote_path, data))
    IN  IF ~o.ok THEN o
        ELSE IF ~w.ok THEN w
        ELSE After(w, "stat", remote_path, SftpStat(sftp, up, w.fs, remote_path))

ajax_upload(sftp, up, f, local, parent_path, parts, tmp, how) ==
    IF NotConnected(sftp)
    THEN [resp |-> Jsonify("upload", "error", "SFTP not connected!", <<>>),
          fs |-> f, local |-> local]
    ELSE IF parent_path = <<>>
    THEN [resp |-> Jsonify("upload", "error", "No parent path provided", <<>>),
          fs |-> f, local |-> local]
    ELSE LET c == containing_dir(sftp, up, f, parent_path)
             first == FirstPart(parts)
         IN  IF first = <<>>
             THEN [resp |-> Jsonify("upload", "ok", "File uploaded", c.log),
                   fs |-> f, local |-> local]
             ELSE IF how # "ok"
             \* f.save raises outside the try: no except, no finally
             THEN [resp |-> [NoResp EXCEPT !.op = "upload", !.status = "raised",
                                           !.code = 500, !.calls = c.log, !.tmp = tmp],
                   fs |-> f,
                   local |-> IF how = "partial" THEN local \cup {tmp} ELSE local]
             ELSE LET remote_path == sanitize_path(path_join(c.dir, first[1].filename))
                      put == SftpPut(sftp, up, [Started(f) EXCEPT !.log = c.log],
                                     remote_path, first[1].data)
                      \* finally: os.remove(temp_path) when it exists
                      cleaned == (local \cup {tmp}) \ {tmp}
                  IN  IF put.ok
                      THEN [resp |-> [Jsonify("upload", "ok", "File uploaded", put.log)
                                        EXCEPT !.tmp = tmp],
                            fs |-> put.fs, local |-> cleaned]
                      ELSE [resp |-> [Jsonify("upload", "error", put.err, put.log)
                                        EXCEPT !.tmp = tmp],
                            fs |-> put.fs, local |-> cleaned]

(***************************************************************************)
(* download_file().  The archive is the sequence of the entries            *)
(* zipf.writestr adds, each [name, data].                                  *)
(***************************************************************************)
RECURSIVE add_dir_to_zip(_, _, _, _, _, _)
RECURSIVE add_entries_to_zip(_, _, _, _, _, _, _)

\* st = [ok, err, fs, log, zip]; the loop of src/app.py:1182-1190
add_entries_to_zip(sftp, up, st, remote_path, zip_path, entries, ord) ==
    IF entries = <<>> THEN st
    ELSE LET attr == Head(entries)
             remote_item == sanitize_path(path_join(remote_path, attr.filename))
             zip_item == path_join(zip_path, attr.filename)
             done ==
                IF attr.kind = "dir"
                THEN add_dir_to_zip(sftp, up, st, remote_item, zip_item, ord)
                ELSE LET r == SftpRead(sftp, up, st.fs, remote_item)
                     IN  [ok |-> r.ok, err |-> r.err, fs |-> st.fs,
                          log |-> Append(st.log, Call("open_rb", remote_item, r)),
                          zip |-> IF r.ok
                                  THEN Append(st.zip, [name |-> zip_item, data |-> r.data])
                                  ELSE st.zip]
         IN  IF ~done.ok THEN done
             ELSE add_entries_to_zip(sftp, up, done, remote_path, zip_path, Tail(entries), ord)

\* add_dir_to_zip(sftp, remote_path, zip_path) (src/app.py:1181-1190)
add_dir_to_zip(sftp, up, st, remote_path, zip_path, ord) ==
    LET l == SftpListdirAttr(sftp, up, st.fs, remote_path, ord)
        listed == [ok |-> l.ok, err |-> l.err, fs |-> st.fs,
                   log |-> Append(st.log, Call("listdir_attr", remote_path, l)),
                   zip |-> st.zip]
    IN  IF ~l.ok THEN listed
        ELSE add_entries_to_zip(sftp, up, listed, remote_path, zip_path, l.entries, ord)

PlainText(op, message, code, calls) ==
    [NoResp EXCEPT !.op = op, !.status = "text", !.code = code,
                   !.message = message, !.calls = calls]

DotZip == <<".", "z", "i", "p">>

\* download_file(): the response
download_file(sftp, up, f, path, ord) ==
    IF NotConnected(sftp) THEN PlainText("download", "SFTP not connected!", 500, <<>>)
    ELSE IF path = <<>> THEN PlainText("download", "No path provided", 400, <<>>)
    ELSE LET s == SftpStat(sftp, up, f, path)
             slog == <<Call("stat", path, s)>>
         IN  IF ~s.ok THEN PlainText("download", s.err, 500, slog)
             ELSE IF s.kind = "dir"
             THEN LET z == add_dir_to_zip(sftp, up,
                                [ok |-> TRUE, err |-> "", fs |-> f, log |-> slog, zip |-> <<>>],
                                path, path_basename(path), ord)
                  IN  IF ~z.ok THEN PlainText("download", z.err, 500, z.log)
                      ELSE [NoResp EXCEPT !.op = "download", !.status = "file", !.code = 200,
                                          !.archive = z.zip,
                                          !.download_name = path_basename(path) \o DotZip,
                                          !.calls = z.log]
             ELSE LET g == SftpRead(sftp, up, f, path)
                      glog == Append(slog, Call("get", path, g))
                  IN  IF ~g.ok THEN PlainText("download", g.err, 500, glog)
                      ELSE [NoResp EXCEPT !.op = "download", !.status = "file", !.code = 200,
                                          !.body = g.data,
                                          !.download_name = path_basename(path),
                                          !.calls = glog]

(***************************************************************************)
(* terminal_execute() and terminal_stream().  out and err are the bytes    *)
(* the remote command writes to its standard output and standard error.    *)
(***************************************************************************)
\* whether bytes.decode("utf-8") succeeds
RECURSIVE Utf8Valid(_)
Utf8Valid(bytes) ==
    IF bytes = <<>> THEN TRUE
    ELSE IF bytes[1] < 128 THEN Utf8Valid(Tail(bytes))
    ELSE LET need == NeedCont(bytes[1])
         IN  /\ need > 0
             /\ ContRun(bytes, need) = need
             /\ Utf8Valid(SubSeq(bytes, need + 2, Len(bytes)))

AMP == 38
LT == 60
GT == 62

\* the HTML escaping of Ansi2HTMLConverter (escaped=True): & < > become entities
EscapeCodePoint(cp) ==
    IF cp = AMP THEN <<38, 97, 109, 112, 59>>
    ELSE IF cp = LT THEN <<38, 108, 116, 59>>
    ELSE IF cp = GT THEN <<38, 103, 116, 59>>
    ELSE <<cp>>

ESC == 27
LBRACKET == 91
COLON == 58
SEMICOLON == 59
SGR == 109
\* the markup of a closed span, and of the span that opens colour fg
SpanClose == -1
SpanOpen(fg) == 0 - fg

\* [\d;:]
IsParamChar(c) == (c >= 48 /\ c <= 57) \/ c = SEMICOLON \/ c = COLON
\* [a-zA-Z]
IsLetter(c) == (c >= 65 /\ c <= 90) \/ (c >= 97 /\ c <= 122)

\* how many parameter characters stand at the head of t
RECURSIVE ParamRun(_)
ParamRun(t) ==
    IF t # <<>> /\ IsParamChar(Head(t)) THEN 1 + ParamRun(Tail(t)) ELSE 0

\* params.split(";")
RECURSIVE SplitParams(_, _)
SplitParams(t, cur) ==
    IF t = <<>> THEN <<cur>>
    ELSE IF Head(t) = SEMICOLON THEN <<cur>> \o SplitParams(Tail(t), <<>>)
    ELSE SplitParams(Tail(t), Append(cur, Head(t)))

\* int(x) of a string of digits
RECURSIVE IntOf(_)
IntOf(digits) ==
    IF digits = <<>> THEN 0
    ELSE 10 * IntOf(SubSeq(digits, 1, Len(digits) - 1)) + (digits[Len(digits)] - 48)

\* [int(x) for x in params.split(";")], and [0] when an int(x) raises
SgrParams(t) ==
    LET pieces == SplitParams(t, <<>>)
        bad(x) == x = <<>> \/ \E i \in 1..Len(x) : x[i] = COLON
    IN  IF \E i \in 1..Len(pieces) : bad(pieces[i]) THEN <<0>>
        ELSE [i \in 1..Len(pieces) |-> IntOf(pieces[i])]

\* the foreground colour after the codes ps: 30..37 set it, others leave it
RECURSIVE Adjust(_, _)
Adjust(ps, fg) ==
    IF ps = <<>> THEN fg
    ELSE Adjust(Tail(ps), IF Head(ps) >= 30 /\ Head(ps) <= 37 THEN Head(ps) ELSE fg)

\* what one "m" sequence with codes ps emits, and the state after it: the
\* last 0 resets, the codes after it restyle
ApplySgr(ps, fg, inside) ==
    LET nulls == {i \in 1..Len(ps) : ps[i] = 0}
        reset == nulls # {}
        last == IF reset THEN CHOOSE i \in nulls : \A j \in nulls : j <= i ELSE 0
        rest == SubSeq(ps, last + 1, Len(ps))
        out1 == IF reset /\ inside THEN <<SpanClose>> ELSE <<>>
        inside1 == inside /\ ~reset
        fg1 == IF reset THEN 0 ELSE fg
        fg2 == Adjust(rest, fg1)
        out2 == IF inside1 THEN Append(out1, SpanClose) ELSE out1
    IN  IF reset /\ rest = <<>> THEN [out |-> out1, fg |-> fg1, inside |-> inside1]
        ELSE IF fg2 = 0 THEN [out |-> out2, fg |-> fg2, inside |-> FALSE]
        ELSE [out |-> Append(out2, SpanOpen(fg2)), fg |-> fg2, inside |-> TRUE]

\* the scan of one convert call: text between the sequences ESC [ params
\* letter is escaped and emitted, "m" sequences restyle, other sequences are
\* dropped, a sequence that is not complete stays as text; the span that is
\* open at the end of the text is closed
RECURSIVE ScanAnsi(_, _, _)
ScanAnsi(t, fg, inside) ==
    IF t = <<>> THEN IF inside THEN <<SpanClose>> ELSE <<>>
    ELSE LET run == IF Len(t) >= 2 /\ t[1] = ESC /\ t[2] = LBRACKET
                    THEN ParamRun(SubSeq(t, 3, Len(t))) ELSE 0
             matched == /\ Len(t) >= 3 + run /\ t[1] = ESC /\ t[2] = LBRACKET
                        /\ IsLetter(t[3 + run])
         IN  IF ~matched THEN EscapeCodePoint(t[1]) \o ScanAnsi(Tail(t), fg, inside)
             ELSE LET after == SubSeq(t, 4 + run, Len(t))
                  IN  IF t[3 + run] # SGR THEN ScanAnsi(after, fg, inside)
                      ELSE LET a == ApplySgr(SgrParams(SubSeq(t, 3, 2 + run)), fg, inside)
                           IN  a.out \o ScanAnsi(after, a.fg, a.inside)

\* conv.convert(text, full=False): every call starts without a style and
\* without an open span
ansi_convert(text) == ScanAnsi(text, 0, FALSE)

\* SSHClient.exec_command(cmd) and the reads of stdout and stderr
SshExec(ssh, up, out, err) ==
    IF CallError(ssh, up) # "" THEN [ok |-> FALSE, err |-> CallError(ssh, up)]
    ELSE [ok |-> TRUE, err |-> ""]

\* terminal_execute(): the response
terminal_execute(ssh, up, cmd, out, err) ==
    IF NotConnected(ssh) THEN Jsonify("execute", "error", "SSH not connected!", <<>>)
    ELSE IF cmd = <<>> THEN Jsonify("execute", "error", "No command provided", <<>>)
    ELSE LET x == SshExec(ssh, up, out, err)
             log == <<Call("exec_command", cmd, x)>>
         IN  IF ~x.ok THEN Jsonify("execute", "error", x.err, log)
             ELSE IF ~Utf8Valid(out) \/ ~Utf8Valid(err)
             THEN Jsonify("execute", "error", "'utf-8' codec can't decode", log)
             ELSE [Jsonify("execute", "ok", "", log) EXCEPT
                      !.content = ansi_convert(Utf8Decode(out) \o Utf8Decode(err))]

\* terminal_stream(): the response; the generator has not run when it returns
terminal_stream_enveloped(ssh, cmd) ==
    IF NotConnected(ssh) THEN Jsonify("stream", "error", "SSH not connected!", <<>>)
    ELSE IF cmd = <<>> THEN Jsonify("stream", "error", "No command provided", <<>>)
    ELSE Jsonify("stream", "ok", "", <<>>)

terminal_stream(ssh, cmd) ==
    IF NotConnected(ssh) THEN Jsonify("stream", "error", "SSH not connected!", <<>>)
    ELSE IF cmd = <<>> THEN Jsonify("stream", "error", "No command provided", <<>>)
    ELSE [NoResp EXCEPT !.op = "stream", !.status = "stream", !.code = 200]

(***************************************************************************)
(* The inputs of the requests.                                             *)
(***************************************************************************)
TwoNames == {<<"a">>, <<"B">>}

\* the absolute path of a node
RECURSIVE AbsPath(_)
AbsPath(n) ==
    IF n = <<>> THEN <<>> ELSE AbsPath(SubSeq(n, 1, Len(n) - 1)) \o <<SLASH>> \o n[Len(n)]

PathOf(n) == IF n = RootNode THEN <<SLASH>> ELSE AbsPath(n)

\* the paths of the directories that exist
DirPaths(f) == {PathOf(n) : n \in {m \in DOMAIN f : f[m].kind = "dir"}}

\* the paths a request may carry: of the entries that exist, of entries that
\* could be made beside them, the same with a trailing slash, and none
PathInputs(f, names) ==
    LET here == {PathOf(n) : n \in DOMAIN f}
        near == {PathOf(Append(n, x)) : n \in {m \in DOMAIN f : Len(m) < MaxDepth},
                                        x \in names}
        slashed == {PathOf(n) \o <<SLASH>> : n \in (DOMAIN f) \ {RootNode}}
    IN  here \cup near \cup slashed \cup {<<>>}

\* the names a request may carry: plain names, none, an absolute path, and
\* names that hold a separator
NameInputs ==
    TwoNames \cup {<<>>, <<SLASH, "a">>, <<"a", SLASH, "B">>, <<"a", BACKSLASH, "B">>}

\* the orders in which the remote may enumerate what lies under path
OrdersUnder(path) == Orders(Under(fs, NodeOf(path)))
OrdersIn(path) == Orders(ChildrenOf(fs, NodeOf(path)))

(***************************************************************************)
(* The actions.                                                            *)
(***************************************************************************)
Up == link = "up"

NoSave == [path |-> <<>>, content |-> <<>>, made |-> FALSE]

NoReq ==
    [op |-> "", path |-> <<>>, name |-> <<>>, kind |-> "", content |-> <<>>,
     parts |-> <<>>, fs |-> <<>>, denied |-> {}, sftp |-> "", ssh |-> "",
     link |-> "", out |-> <<>>, err |-> <<>>, exit |-> 0]

\* the request op with the state it meets
Request(op) ==
    [NoReq EXCEPT !.op = op, !.fs = fs, !.denied = denied,
                  !.sftp = global_sftp_client, !.ssh = global_ssh_client, !.link = link]

EmptyRemote == [n \in {RootNode} |-> [kind |-> "dir", data |-> <<>>]]

\* the threads start_server can make
Threads == 1..MaxThreads
\* None, where a thread or its server is held (src/app.py:35-36)
NoThread == 0
NoTask == [op |-> "", path |-> <<>>, content |-> <<>>, pc |-> "", stack |-> <<>>]

\* no streamed command yet.  pc: where generate() stands; gen: tells a run from
\* the run before it; chunks: what generate() has yielded; channel: the
\* channel of open_session; script: what the command writes in all, todo:
\* what it has still to write, inbuf: what has arrived and is not yet read,
\* got: what recv has returned; exited: the exit status has arrived; raised:
\* the except clause was entered; errscript, errtodo, in_stderr: what the
\* command writes to standard error, has still to write there, and what of it
\* has arrived
NoRun ==
    [pc |-> "none", gen |-> FALSE, cmd |-> <<>>, chunks |-> <<>>, channel |-> "none",
     script |-> <<>>, todo |-> <<>>, inbuf |-> <<>>, got |-> <<>>, exited |-> FALSE,
     errscript |-> <<>>, errtodo |-> <<>>, in_stderr |-> <<>>,
     raised |-> FALSE, owner |-> NoThread]

\* the login dialog as it opens.  status_label and cause: the text of the
\* label; connects: the calls of ssh.connect the last click made; failed: the
\* call of the last click that raised; accepted: the dialog was accepted
\* no command run to its end yet.  pc: where terminal_execute() stands;
\* writes: what the command has still to write, each "out" or "err"; window:
\* how much the remote may still send on the channel; in_stdout, in_stderr:
\* what has arrived and is not yet read; eof: the command has ended; out, err:
\* what stdout.read() and stderr.read() have so far
NoOnce ==
    [pc |-> "none", cmd |-> <<>>, writes |-> <<>>, window |-> 0, in_stdout |-> <<>>,
     in_stderr |-> <<>>, eof |-> FALSE, out |-> <<>>, err |-> <<>>]

NoLogin ==
    [status_label |-> "", cause |-> "", connects |-> 0, failed |-> "", accepted |-> FALSE]

\* the state after construction, before a remote that holds what remote holds
InitOn(remote) ==
    /\ global_ssh_client = "None"
    /\ global_sftp_client = "None"
    /\ link = "up"
    /\ fs = remote
    /\ denied = {}
    /\ localTmp = {}
    /\ req = NoReq
    /\ resp = NoResp
    /\ saved = NoSave
    /\ server_running = FALSE
    /\ flask_server = NoThread
    /\ server_thread = NoThread
    /\ thread = [t \in Threads |-> "new"]
    /\ port = [t \in Threads |-> 0]
    /\ task = [t \in Threads |-> NoTask]
    /\ stream = NoRun
    /\ streams = [t \in Threads |-> NoRun]
    /\ once = NoOnce
    /\ login = NoLogin

Init == InitOn(EmptyRemote)

\* LoginDialog.do_connect (src/app.py:1348-1368).  filled: the three fields
\* hold text; connected: ssh.connect returns; sftp_opened: ssh.open_sftp
\* returns; cause: str(e) of the call that raises
do_connect_ssh_first(filled, connected, sftp_opened, cause) ==
    /\ global_ssh_client = "None"
    /\ IF filled /\ connected
       THEN /\ global_ssh_client' = "ssh"
            /\ global_sftp_client' = IF sftp_opened THEN "sftp" ELSE "None"
       ELSE UNCHANGED <<global_ssh_client, global_sftp_client>>
    /\ login' = IF ~filled THEN [NoLogin EXCEPT !.status_label = "All fields required!"]
                ELSE IF connected /\ sftp_opened
                THEN [status_label |-> "Connecting...", cause |-> "", connects |-> 1,
                      failed |-> "", accepted |-> TRUE]
                ELSE [status_label |-> "Connection failed: ", cause |-> cause, connects |-> 1,
                      failed |-> IF connected THEN "open_sftp" ELSE "connect",
                      accepted |-> FALSE]
    /\ UNCHANGED <<link, fs, denied, localTmp, req, resp, saved>>
    /\ UNCHANGED serve

do_connect(filled, connected, sftp_opened, cause) ==
    /\ global_ssh_client = "None"
    /\ IF filled /\ connected /\ sftp_opened
       THEN /\ global_ssh_client' = "ssh"
            /\ global_sftp_client' = "sftp"
       ELSE UNCHANGED <<global_ssh_client, global_sftp_client>>
    /\ login' = IF ~filled THEN [NoLogin EXCEPT !.status_label = "All fields required!"]
                ELSE IF connected /\ sftp_opened
                THEN [status_label |-> "Connecting...", cause |-> "", connects |-> 1,
                      failed |-> "", accepted |-> TRUE]
                ELSE [status_label |-> "Connection failed: ", cause |-> cause, connects |-> 1,
                      failed |-> IF connected THEN "open_sftp" ELSE "connect",
                      accepted |-> FALSE]
    /\ UNCHANGED <<link, fs, denied, localTmp, req, resp, saved>>
    /\ UNCHANGED serve

\* the connection breaks
Break ==
    /\ global_ssh_client # "None"
    /\ link = "up"
    /\ link' = "down"
    /\ UNCHANGED <<global_ssh_client, global_sftp_client, fs, denied, localTmp, req, resp, saved>>
    /\ UNCHANGED <<serve, login>>

\* the remote starts to refuse the removal of node n
Deny(n) ==
    /\ n \in (DOMAIN fs) \ {RootNode}
    /\ denied = {}
    /\ denied' = {n}
    /\ UNCHANGED <<global_ssh_client, global_sftp_client, link, fs, localTmp, req, resp, saved>>
    /\ UNCHANGED <<serve, login>>

\* a handler that only reads returned r
Answered(r) ==
    /\ resp' = r
    /\ UNCHANGED <<global_ssh_client, global_sftp_client, link, fs, denied, localTmp, saved>>
    /\ UNCHANGED <<serve, login>>

\* a handler returned r = [resp, fs]
Returned(r) ==
    /\ InBounds(r.fs)
    /\ resp' = r.resp
    /\ fs' = r.fs
    /\ denied' = denied \cap DOMAIN r.fs
    /\ UNCHANGED <<global_ssh_client, global_sftp_client, link>>
    /\ UNCHANGED <<serve, login>>

\* what a handler other than ajax_save leaves of the last save
Unsaved(r) == saved' = IF r.fs = fs THEN saved ELSE NoSave

AjaxList(path, ord) ==
    /\ req' = [Request("list") EXCEPT !.path = path]
    /\ Answered(ajax_list(global_sftp_client, Up, fs, path, ord))

AjaxFile(path) ==
    /\ req' = [Request("file") EXCEPT !.path = path]
    /\ Answered(ajax_file(global_sftp_client, Up, fs, path))

AjaxSave(path, content) ==
    LET r == ajax_save(global_sftp_client, Up, fs, path, content)
    IN  /\ req' = [Request("save") EXCEPT !.path = path, !.content = content]
        /\ Returned(r)
        /\ saved' = IF r.resp.status = "ok"
                    THEN [path |-> path, content |-> content, made |-> TRUE]
                    ELSE IF r.fs = fs THEN saved ELSE NoSave
        /\ UNCHANGED localTmp

AjaxDelete(path, ord) ==
    LET r == ajax_delete(global_sftp_client, Up, fs, denied, path, ord)
    IN  /\ req' = [Request("delete") EXCEPT !.path = path]
        /\ Returned(r)
        /\ Unsaved(r)
        /\ UNCHANGED localTmp

AjaxNewItem(parent_path, name, item_type) ==
    LET r == ajax_new_item(global_sftp_client, Up, fs, parent_path, name, item_type)
    IN  /\ req' = [Request("new_item") EXCEPT !.path = parent_path, !.name = name,
                                              !.kind = item_type]
        /\ Returned(r)
        /\ Unsaved(r)
        /\ UNCHANGED localTmp

AjaxRename(old_path, new_name) ==
    LET r == ajax_rename(global_sftp_client, Up, fs, old_path, new_name)
    IN  /\ req' = [Request("rename") EXCEPT !.path = old_path, !.name = new_name]
        /\ Returned(r)
        /\ Unsaved(r)
        /\ UNCHANGED localTmp

AjaxUpload(parent_path, parts, tmp, how) ==
    LET r == ajax_upload(global_sftp_client, Up, fs, localTmp, parent_path, parts, tmp, how)
    IN  /\ tmp \notin localTmp
        /\ req' = [Request("upload") EXCEPT !.path = parent_path, !.parts = parts]
        /\ Returned(r)
        /\ Unsaved(r)
        /\ localTmp' = r.local

DownloadFile(path, ord) ==
    /\ req' = [Request("download") EXCEPT !.path = path]
    /\ Answered(download_file(global_sftp_client, Up, fs, path, ord))

\* exit is the exit status of the command, which the handler does not read
TerminalExecute(cmd, out, err, exit) ==
    /\ req' = [Request("execute") EXCEPT !.path = cmd, !.out = out, !.err = err,
                                         !.exit = exit]
    /\ Answered(terminal_execute(global_ssh_client, Up, cmd, out, err))

TerminalStream(cmd) ==
    /\ req' = [Request("stream") EXCEPT !.path = cmd]
    /\ Answered(terminal_stream(global_ssh_client, cmd))

\* the operator fills the dialog and clicks Connect
Connect == \E c, o \in BOOLEAN : do_connect(TRUE, c, o, "timed out")

(***************************************************************************)
(* Listing: entries are made in the root and directories are listed.       *)
(***************************************************************************)
ListNames == {<<"a">>, <<"B">>, <<"b">>, <<"c">>}

NextList ==
    \/ Connect
    \/ \E name \in ListNames, t \in {"file", "folder"} : AjaxNewItem(<<SLASH>>, name, t)
    \/ \E path \in PathInputs(fs, {<<"a">>}) : \E ord \in OrdersIn(path) : AjaxList(path, ord)

SpecList == Init /\ [][NextList]_vars

NamesIn(items) == {items[i].name : i \in 1..Len(items)}
SortedByLowerName(items) ==
    \A i, j \in 1..Len(items) :
        i < j => ~StrLess(Lower(items[j].name), Lower(items[i].name))
ListedNode == NodeOf(req.path)
ListedKids(kind) ==
    {m[Len(m)] : m \in {k \in ChildrenOf(req.fs, ListedNode) : req.fs[k].kind = kind}}

\* C3: whatever order the remote returns the entries in, a successful list
\* returns the directories of the listed directory in `directories` and its
\* files in `files`, each entry once and in one of the two only, and each
\* sequence is sorted by lower-cased name.
C3_ListPartitionSorted ==
    (req.op = "list" /\ resp.status = "ok") =>
        /\ NamesIn(resp.directories) = ListedKids("dir")
        /\ NamesIn(resp.files) = ListedKids("file")
        /\ Len(resp.directories) = Cardinality(ListedKids("dir"))
        /\ Len(resp.files) = Cardinality(ListedKids("file"))
        /\ NamesIn(resp.directories) \cap NamesIn(resp.files) = {}
        /\ SortedByLowerName(resp.directories)
        /\ SortedByLowerName(resp.files)

\* a listing of two files whose names differ in case, and a directory
C3_Witness ==
    /\ req.op = "list" /\ resp.status = "ok"
    /\ {<<"a">>, <<"B">>} \subseteq NamesIn(resp.files)
    /\ Len(resp.directories) >= 1

(***************************************************************************)
(* Deleting: a tree is built, the remote may refuse one removal, and paths *)
(* are deleted.                                                            *)
(***************************************************************************)
NextDelete ==
    \/ Connect
    \/ \E n \in DOMAIN fs : Deny(n)
    \/ \E parent_path \in DirPaths(fs), name \in TwoNames, t \in {"file", "folder"} :
          AjaxNewItem(parent_path, name, t)
    \/ \E path \in PathInputs(fs, {}) \cup {AbsPath(<<"a">>)} : \E ord \in OrdersUnder(path) :
          AjaxDelete(path, ord)

SpecDelete == Init /\ [][NextDelete]_vars

\* the removals of the last request: the nodes of its remove and rmdir calls
Removals == SelectSeq(resp.calls, LAMBDA c : c.fn \in {"remove", "rmdir"})
RemovedNodes == {NodeOf(Removals[i].path) : i \in {k \in 1..Len(Removals) : Removals[k].ok}}
DeleteTarget == NodeOf(req.path)
DeletedDirectory ==
    /\ req.op = "delete" /\ req.sftp # "None"
    /\ Names(req.fs, req.path) /\ IsDir(req.fs, DeleteTarget)

\* C5: a successful delete of a directory removed every entry under it before
\* the directory that holds the entry, the given directory last; afterwards
\* nothing is left under the path, the path is gone, and nothing else is.
C5_DeleteChildrenFirst ==
    (DeletedDirectory /\ resp.status = "ok") =>
        /\ \A i \in 1..Len(Removals) : Removals[i].ok
        /\ \A i, j \in 1..Len(Removals) :
              (/\ NodeOf(Removals[i].path) # NodeOf(Removals[j].path)
               /\ IsPrefix(NodeOf(Removals[i].path), NodeOf(Removals[j].path))) => j < i
        /\ Len(Removals) = Cardinality(Under(req.fs, DeleteTarget)) + 1
        /\ RemovedNodes = {DeleteTarget} \cup Under(req.fs, DeleteTarget)
        /\ NodeOf(Removals[Len(Removals)].path) = DeleteTarget
        /\ DeleteTarget \notin DOMAIN fs
        /\ Under(fs, DeleteTarget) = {}
        /\ DOMAIN fs = (DOMAIN req.fs) \ ({DeleteTarget} \cup Under(req.fs, DeleteTarget))

\* a directory with a subdirectory that holds an entry was deleted
C5_Witness ==
    /\ DeletedDirectory /\ resp.status = "ok"
    /\ \E m \in Under(req.fs, DeleteTarget) : Len(m) = Len(DeleteTarget) + 2

\* C6: when the remote refuses the removal of an entry under the directory, the
\* delete returns an error and the refused call is its last; what was removed
\* before stays removed, nothing else changes, and the directory is not removed.
C6_DeletePartialFailure ==
    (DeletedDirectory /\ req.denied \cap Under(req.fs, DeleteTarget) # {}) =>
        /\ resp.status = "error"
        /\ resp.message = PermissionDenied
        /\ ~resp.calls[Len(resp.calls)].ok
        /\ NodeOf(resp.calls[Len(resp.calls)].path) \in req.denied
        /\ \A i \in 1..(Len(resp.calls) - 1) : resp.calls[i].ok
        /\ fs = Drop(req.fs, RemovedNodes)
        /\ IsDir(fs, DeleteTarget)

\* a removal under the directory was refused after another entry had been removed
C6_Witness ==
    /\ DeletedDirectory /\ req.denied \cap Under(req.fs, DeleteTarget) # {}
    /\ resp.status = "error"
    /\ RemovedNodes # {}

(***************************************************************************)
(* Renaming: a tree is built and entries are renamed.                      *)
(***************************************************************************)
NextRename ==
    \/ Connect
    \/ \E parent_path \in DirPaths(fs), name \in TwoNames, t \in {"file", "folder"} :
          AjaxNewItem(parent_path, name, t)
    \/ \E old_path \in PathInputs(fs, {<<"a">>}), new_name \in NameInputs :
          AjaxRename(old_path, new_name)

SpecRename == Init /\ [][NextRename]_vars

\* a name that holds no separator
PlainName(name) ==
    /\ name # <<>>
    /\ \A i \in 1..Len(name) : name[i] \notin {SLASH, BACKSLASH}

RenamedNode == NodeOf(req.path)
\* the sibling of the renamed entry that carries the new name
SiblingNode == Append(ParentNode(RenamedNode), req.name)
RenameSucceeded == req.op = "rename" /\ resp.status = "ok"

\* the entry at oldPath, with all that lies under it, is now at node b
MovedTo(b) ==
    /\ RenamedNode \in DOMAIN req.fs
    /\ RenamedNode \notin DOMAIN fs
    /\ b \in DOMAIN fs
    /\ fs = Move(req.fs, RenamedNode, b)

OccupiedRename ==
    /\ req.op = "rename" /\ req.sftp # "None"
    /\ PlainName(req.name)
    /\ Names(req.fs, req.path)
    /\ SiblingNode \in DOMAIN req.fs

\* C8: a rename to a name that is occupied in the same directory returns an
\* error and leaves the remote as it was: the entry is still at oldPath and
\* the occupying entry is untouched.
C8_RenameOccupied ==
    OccupiedRename =>
        /\ resp.status = "error"
        /\ fs = req.fs

\* a file was renamed to the name of another file of its directory
C8_Witness ==
    /\ OccupiedRename
    /\ SiblingNode # RenamedNode
    /\ IsFile(req.fs, RenamedNode) /\ IsFile(req.fs, SiblingNode)
    /\ resp.status = "error"

(***************************************************************************)
(* Text: a file is saved and read back.                                    *)
(***************************************************************************)
\* code points whose UTF-8 forms take one, two, three and four bytes
CodePoints == {97, 233, 8364, 128512}
Texts == UNION {[1..n -> CodePoints] : n \in 0..MaxTextLen}
TextPaths == {AbsPath(<<"a">>), AbsPath(<<"B", "a">>), <<>>}

NextText ==
    \/ Connect
    \/ \E t \in {"file", "folder"} : AjaxNewItem(<<SLASH>>, <<"a">>, t)
    \/ \E path \in TextPaths, content \in Texts : AjaxSave(path, content)
    \/ \E path \in TextPaths : AjaxFile(path)

SpecText == Init /\ [][NextText]_vars

\* the request reads the path of the last successful save, and no handler
\* has changed the remote since that save
ReadOfSaved == req.op = "file" /\ saved.made /\ saved.path = req.path

\* C4: a read of a path after a successful save of text c to that path, with
\* no write to the remote in between, succeeds and returns exactly c.
C4_SaveThenRead ==
    ReadOfSaved => resp.status = "ok" /\ resp.content = saved.content

\* a text of a two-byte and a four-byte code point was saved and read back
C4_Witness ==
    /\ ReadOfSaved
    /\ saved.path = AbsPath(<<"a">>)
    /\ saved.content = <<233, 128512>>
    /\ resp.status = "ok"

(***************************************************************************)
(* Downloading: a tree is built and paths are downloaded.                  *)
(***************************************************************************)
NextDownload ==
    \/ Connect
    \/ \E parent_path \in DirPaths(fs), name \in TwoNames, t \in {"file", "folder"} :
          AjaxNewItem(parent_path, name, t)
    \/ \E path \in PathInputs(fs, {}) \cup {AbsPath(<<"a">>)} : \E ord \in OrdersUnder(path) :
          DownloadFile(path, ord)

SpecDownload == Init /\ [][NextDownload]_vars

DownloadedNode == NodeOf(req.path)
\* the request downloaded a directory other than the root
DownloadedDirectory ==
    /\ req.op = "download" /\ resp.status = "file"
    /\ Names(req.fs, req.path)
    /\ IsDir(req.fs, DownloadedNode)
    /\ DownloadedNode # RootNode

\* the directory's own name
OwnName == DownloadedNode[Len(DownloadedNode)]
ArchiveNames == {resp.archive[i].name : i \in 1..Len(resp.archive)}
UnderRoot(e) ==
    /\ Len(e) > Len(OwnName) + 1
    /\ SubSeq(e, 1, Len(OwnName) + 1) = OwnName \o <<SLASH>>
Stripped == {SubSeq(e, Len(OwnName) + 2, Len(e)) : e \in ArchiveNames}
\* the directories an entry path runs through
DirsOn(e) == {SubSeq(e, 1, i - 1) : i \in {k \in 2..Len(e) : e[k] = SLASH}}
\* the path of node m relative to the downloaded directory
RelativePath(m) == Tail(AbsPath(SubSeq(m, Len(DownloadedNode) + 1, Len(m))))

\* C10 as stated: the archive of a directory has the directory's own name as
\* its root, and its entry paths with the root stripped, together with the
\* directories they run through, are the relative paths of all that lies
\* under the directory.
C10_ArchiveMirrorsTree ==
    DownloadedDirectory =>
        /\ \A e \in ArchiveNames : UnderRoot(e)
        /\ Stripped \cup UNION {DirsOn(e) : e \in Stripped}
              = {RelativePath(m) : m \in Under(req.fs, DownloadedNode)}

(***************************************************************************)
(* The gateway: every handler, on a small remote.                          *)
(***************************************************************************)
Paths == {<<SLASH>>, AbsPath(<<"a">>), <<>>}
Parents == {<<SLASH>>, <<>>}
Contents == {<<>>, <<97>>, <<233>>}
Commands == {<<>>, <<"l", "s">>}
\* what a command writes: nothing, "<", and a byte that is not UTF-8
Outputs == {<<>>, <<60>>, <<195>>}
TmpNames == 1..MaxTmp
UploadParts ==
    {<<>>,
     <<[filename |-> <<"a">>, data |-> <<97>>]>>,
     <<[filename |-> <<>>, data |-> <<>>], [filename |-> <<"B">>, data |-> <<>>]>>}

Next ==
    \/ Connect
    \/ Break
    \/ \E path \in Paths : \E ord \in OrdersIn(path) : AjaxList(path, ord)
    \/ \E path \in Paths : AjaxFile(path)
    \/ \E path \in Paths, content \in Contents : AjaxSave(path, content)
    \/ \E path \in Paths : \E ord \in OrdersUnder(path) : AjaxDelete(path, ord)
    \/ \E parent_path \in Parents, name \in TwoNames \cup {<<>>}, t \in {"file", "folder"} :
          AjaxNewItem(parent_path, name, t)
    \/ \E old_path \in Paths, new_name \in TwoNames : AjaxRename(old_path, new_name)
    \/ \E parent_path \in Parents, parts \in UploadParts, tmp \in TmpNames,
          how \in SaveOutcomes : AjaxUpload(parent_path, parts, tmp, how)
    \/ \E path \in Paths : \E ord \in OrdersUnder(path) : DownloadFile(path, ord)
    \/ \E cmd \in Commands, out \in Outputs, err \in Outputs :
          TerminalExecute(cmd, out, err, 0)
    \/ \E cmd \in Commands : TerminalStream(cmd)

Spec == Init /\ [][Next]_vars

FileOps == {"list", "file", "save", "delete", "new_item", "upload", "download", "rename"}
CommandOps == {"execute", "stream"}
\* the request met a gateway without the handle its operation uses
CalledUnconnected ==
    \/ req.op \in FileOps /\ req.sftp = "None"
    \/ req.op \in CommandOps /\ req.ssh = "None"

NotConnectedMessages ==
    {"SFTP not connected!", "SFTP client not connected!", "SSH not connected!"}
\* a not-connected error: the JSON error of the handlers, the 500 text of
\* download_file
NotConnectedOutcome ==
    /\ resp.message \in NotConnectedMessages
    /\ \/ resp.status = "error"
       \/ resp.status = "text" /\ resp.code = 500

\* C1: each of the ten operations, called while the gateway holds no
\* connection, returns a not-connected error, makes no remote call, starts no
\* stream, raises nothing, and leaves the remote as it was.
C1_NotConnectedGuard ==
    CalledUnconnected =>
        /\ resp.op = req.op
        /\ NotConnectedOutcome
        /\ resp.calls = <<>>
        /\ resp.status \notin {"raised", "stream"}
        /\ fs = req.fs

\* an upload that carries a file part was called without a connection
C1_Witness ==
    /\ CalledUnconnected
    /\ req.op = "upload" /\ req.path = <<SLASH>> /\ Len(req.parts) = 1
    /\ resp.status = "error"

\* C19 as stated: an operation called after the connection broke returns a
\* not-connected error.
C19_BrokenConnectionNotConnected ==
    (req.op \in FileOps \cup CommandOps /\ req.link = "down") => NotConnectedOutcome

\* the request lacks an argument its operation needs
MissingArgument ==
    \/ req.op \in {"file", "save", "delete", "download"} /\ req.path = <<>>
    \/ req.op \in {"new_item", "rename"} /\ (req.path = <<>> \/ req.name = <<>>)
    \/ req.op = "upload" /\ (req.path = <<>> \/ FirstPart(req.parts) = <<>>)
    \/ req.op \in CommandOps /\ req.path = <<>>

\* C24 as stated: an operation called without an argument it needs returns an
\* error with a message, makes no remote call and leaves the remote as it was.
C24_MissingArgumentFailsFast ==
    MissingArgument =>
        /\ resp.status = "error" \/ (resp.status = "text" /\ resp.code \notin 200..299)
        /\ resp.message # ""
        /\ resp.calls = <<>>
        /\ fs = req.fs

\* C29 as stated: an upload that returns ok carried a file part, and the
\* first of its file parts is on the remote under the parent path.
C29_UploadOkMeansWritten ==
    (req.op = "upload" /\ resp.status = "ok") =>
        /\ FirstPart(req.parts) # <<>>
        /\ LET first == FirstPart(req.parts)[1]
               n == NodeOf(sanitize_path(path_join(req.path, first.filename)))
           IN  /\ n \in DOMAIN fs
               /\ fs[n] = [kind |-> "file", data |-> first.data]

\* C9 as stated: when an upload that made a temporary file is over, the
\* temporary file does not exist.
C9_UploadRemovesTemp ==
    (req.op = "upload" /\ resp.tmp \in TmpNames) => resp.tmp \notin localTmp

(***************************************************************************)
(* Failures: every handler, on a remote that loses files, refuses removals *)
(* and breaks.                                                             *)
(***************************************************************************)
NextFailure ==
    \/ Connect
    \/ Break
    \/ \E n \in DOMAIN fs : Deny(n)
    \/ \E path \in Paths : \E ord \in OrdersIn(path) : AjaxList(path, ord)
    \/ \E path \in Paths : AjaxFile(path)
    \/ \E path \in Paths : AjaxSave(path, <<97>>)
    \/ \E path \in Paths : \E ord \in OrdersUnder(path) : AjaxDelete(path, ord)
    \/ \E parent_path \in Parents, name \in TwoNames, t \in {"file", "folder"} :
          AjaxNewItem(parent_path, name, t)
    \/ \E old_path \in Paths, new_name \in TwoNames : AjaxRename(old_path, new_name)
    \/ \E parent_path \in Parents, parts \in UploadParts :
          AjaxUpload(parent_path, parts, 1, "ok")
    \/ \E path \in Paths : \E ord \in OrdersUnder(path) : DownloadFile(path, ord)
    \/ \E cmd \in Commands : TerminalExecute(cmd, <<>>, <<>>, 0)

SpecFailure == Init /\ [][NextFailure]_vars

\* the calls of the response that failed
FailedCalls == {i \in 1..Len(resp.calls) : ~resp.calls[i].ok}
\* the stat of the parent path by which ajax_new_item and ajax_upload begin
ParentProbe == IF req.op \in {"new_item", "upload"} THEN {1} ELSE {}
\* the response is the error outcome of its operation, with message msg
ErrorOutcome(msg) ==
    /\ resp.op = req.op
    /\ resp.message = msg
    /\ IF req.op = "download"
       THEN resp.status = "text" /\ resp.code \notin 200..299
       ELSE resp.status = "error"
\* the first of a set of calls
FirstOf(calls) == CHOOSE i \in calls : \A j \in calls : i <= j

ConnectCauses == {"timed out", "Authentication failed."}
SftpCauses == {"Channel closed."}

Login ==
    \/ \E filled \in BOOLEAN : do_connect(filled, TRUE, TRUE, "")
    \/ \E cause \in ConnectCauses : do_connect(TRUE, FALSE, FALSE, cause)
    \/ \E cause \in SftpCauses : do_connect(TRUE, TRUE, FALSE, cause)

NextLogin ==
    \/ Login
    \/ Break
    \/ \E path \in Paths : \E ord \in OrdersIn(path) : AjaxList(path, ord)
    \/ \E path \in Paths, content \in Contents : AjaxSave(path, content)
    \/ \E cmd \in Commands : TerminalExecute(cmd, <<>>, <<>>, 0)

SpecLogin == Init /\ [][NextLogin]_vars

\* C18: after a Connect that failed, at the transport, at the authentication
\* or at the opening of the file-transfer channel, the dialog shows the one
\* error "Connection failed: " with the cause's text, one connection was
\* tried, the dialog is not accepted, and neither handle is set; at no time
\* is one handle set without the other.
C18_FailedConnectLeavesUnconnected ==
    /\ (global_ssh_client = "None") = (global_sftp_client = "None")
    /\ login.failed # "" =>
          /\ global_ssh_client = "None" /\ global_sftp_client = "None"
          /\ login.status_label = "Connection failed: "
          /\ login.cause \in ConnectCauses \cup SftpCauses
          /\ login.connects = 1
          /\ ~login.accepted

\* the file-transfer channel was refused after the login, and an operation
\* called afterwards found no connection
C18_Witness ==
    /\ login.failed = "open_sftp" /\ login.cause = "Channel closed."
    /\ global_ssh_client = "None" /\ global_sftp_client = "None"
    /\ req.op = "list" /\ resp.message = "SFTP client not connected!"

(***************************************************************************)
(* Commands: commands are run to their end.                                *)
(***************************************************************************)
\* what a command writes: nothing, "<", "e" with an acute accent, a byte that
\* is not UTF-8, and a red "A"
CommandOutputs == {<<>>, <<60>>, <<195, 169>>, <<195>>, <<27, 91, 51, 49, 109, 65>>}

NextCommand ==
    \/ Connect
    \/ Break
    \/ \E cmd \in Commands, out \in CommandOutputs, err \in CommandOutputs, exit \in {0, 1} :
          TerminalExecute(cmd, out, err, exit)

SpecCommand == Init /\ [][NextCommand]_vars

\* the request ran a command: the connection was there and a command was given
Executed == req.op = "execute" /\ req.ssh # "None" /\ req.path # <<>>

\* C11 as stated: a command that was run returns an error only when the
\* transport failed; otherwise it returns success, whatever the exit status,
\* with the conversion of its standard output followed by its standard error.
C11_RunOnceSucceeds ==
    Executed =>
        IF resp.calls[1].ok
        THEN /\ resp.status = "ok"
             /\ resp.content = ansi_convert(Utf8Decode(req.out) \o Utf8Decode(req.err))
        ELSE resp.status = "error"

(***************************************************************************)
(* Serving: the control dialog starts and stops the web server, and each   *)
(* thread of start_flask_server serves its requests one at a time.  A      *)
(* handler is run one remote call at a time, on the remote that every      *)
(* thread shares through global_sftp_client.                               *)
(***************************************************************************)
Ports == {5000, 9999}

\* ControlDialog.start_server with random.randint giving p: the state of the
\* dialog and the threads after it, from st = [running, flask, sthread,
\* thread, port]
start_server(st, sftp, ssh, p) ==
    IF st.running THEN st
    ELSE IF NotConnected(sftp) \/ NotConnected(ssh) THEN st
    ELSE LET t == CHOOSE u \in Threads :
                    st.thread[u] = "new" /\ \A v \in Threads : st.thread[v] = "new" => u <= v
         IN  [st EXCEPT !.sthread = t, !.thread[t] = "starting", !.port[t] = p,
                        !.running = TRUE]

\* ControlDialog.stop_server: shutdown() when flask_server is set, then the
\* join, which ends at once or after its timeout
stop_server(st) ==
    IF ~st.running THEN st
    ELSE LET down == IF st.flask # NoThread
                     THEN [st EXCEPT !.thread[st.flask] = "stopped", !.flask = NoThread]
                     ELSE st
         IN  [down EXCEPT !.sthread = NoThread, !.running = FALSE]

\* shutdown() returns when serve_forever has left its loop, which it does
\* between two requests
CanStop(st) ==
    (st.running /\ st.flask # NoThread) =>
        (st.thread[st.flask] = "serving" /\ task[st.flask] = NoTask)

Dialog ==
    [running |-> server_running, flask |-> flask_server, sthread |-> server_thread,
     thread |-> thread, port |-> port]

Becomes(st) ==
    /\ server_running' = st.running
    /\ flask_server' = st.flask
    /\ server_thread' = st.sthread
    /\ thread' = st.thread
    /\ port' = st.port

Rest ==
    <<global_ssh_client, global_sftp_client, link, denied, localTmp, req, saved, stream,
      streams, once, login>>

StartServer(p) ==
    /\ \E t \in Threads : thread[t] = "new"
    /\ ~server_running
    /\ Becomes(start_server(Dialog, global_sftp_client, global_ssh_client, p))
    /\ UNCHANGED <<Rest, fs, resp, task>>

StopServer ==
    /\ server_running
    /\ CanStop(Dialog)
    /\ Becomes(stop_server(Dialog))
    /\ UNCHANGED <<Rest, fs, resp, task>>

\* ControlDialog.restart_server
RestartServer(p) ==
    /\ \E t \in Threads : thread[t] = "new"
    /\ server_running
    /\ CanStop(Dialog)
    /\ Becomes(start_server(stop_server(Dialog), global_sftp_client, global_ssh_client, p))
    /\ UNCHANGED <<Rest, fs, resp, task>>

\* start_flask_server(port) on thread t, up to serve_forever: make_server
\* raises when the port is bound, and the thread ends
StartFlaskServer(t) ==
    /\ thread[t] = "starting"
    /\ IF \E u \in Threads \ {t} : thread[u] = "serving" /\ port[u] = port[t]
       THEN /\ thread' = [thread EXCEPT ![t] = "failed"]
            /\ UNCHANGED flask_server
       ELSE /\ thread' = [thread EXCEPT ![t] = "serving"]
            /\ flask_server' = t
    /\ UNCHANGED <<Rest, fs, resp, task, server_running, server_thread, port>>

\* serve_forever on thread t takes a request
Accept(t, op, path, content) ==
    /\ thread[t] = "serving"
    /\ task[t] = NoTask
    /\ task' = [task EXCEPT ![t] = [NoTask EXCEPT !.op = op, !.path = path,
                                                  !.content = content, !.pc = "start"]]
    /\ UNCHANGED <<Rest, fs, resp, server_running, flask_server, server_thread, thread, port>>

\* the handler on thread t returns
Finish(t, status, message, f) ==
    /\ task' = [task EXCEPT ![t] = NoTask]
    /\ resp' = Jsonify(task[t].op, status, message, <<>>)
    /\ fs' = f

\* the handler on thread t goes on from pc with the remote f
Goes(t, pc, stack, f) ==
    /\ task' = [task EXCEPT ![t].pc = pc, ![t].stack = stack]
    /\ fs' = f
    /\ UNCHANGED resp

Others == <<Rest, server_running, flask_server, server_thread, thread, port>>

\* ajax_save() on thread t, one remote call at a time
SaveStep(t) ==
    LET k == task[t] IN
    /\ k.op = "save"
    /\ UNCHANGED Others
    /\ IF k.pc = "start"
       THEN IF NotConnected(global_sftp_client)
            THEN Finish(t, "error", "SFTP client not connected!", fs)
            ELSE IF k.path = <<>> THEN Finish(t, "error", "No path provided", fs)
            ELSE LET o == SftpOpenW(global_sftp_client, Up, fs, k.path)
                 IN  IF o.ok THEN Goes(t, "write", <<>>, o.fs)
                     ELSE Finish(t, "error", o.err, o.fs)
       ELSE LET w == SftpWrite(global_sftp_client, Up, fs, k.path, Utf8Encode(k.content))
            IN  IF w.ok THEN Finish(t, "ok", "File saved", w.fs)
                ELSE Finish(t, "error", w.err, w.fs)

\* ajax_delete() on thread t, one remote call at a time.  stack holds the
\* calls of delete_dir that are open, each [dir, listed, entries]: the
\* entries the loop of src/app.py:1097 has still to handle
DeleteStep(t, ord) ==
    LET k == task[t]
        sftp == global_sftp_client
        depth == Len(k.stack)
    IN
    /\ k.op = "delete"
    /\ UNCHANGED Others
    /\ IF k.pc = "start"
       THEN IF NotConnected(sftp) THEN Finish(t, "error", "SFTP client not connected!", fs)
            ELSE IF k.path = <<>> THEN Finish(t, "error", "No path provided", fs)
            ELSE LET s == SftpStat(sftp, Up, fs, k.path)
                 IN  IF ~s.ok THEN Finish(t, "error", s.err, fs)
                     ELSE IF s.kind = "dir"
                     THEN Goes(t, "walk", <<[dir |-> k.path, listed |-> FALSE,
                                             entries |-> <<>>]>>, fs)
                     ELSE Goes(t, "remove", <<>>, fs)
       ELSE IF k.pc = "remove"
       THEN LET r == SftpRemove(sftp, Up, fs, denied, k.path)
            IN  IF r.ok THEN Finish(t, "ok", "Deleted", r.fs)
                ELSE Finish(t, "error", r.err, r.fs)
       ELSE LET top == k.stack[depth] IN
            IF ~top.listed
            THEN LET l == SftpListdirAttr(sftp, Up, fs, top.dir, ord)
                 IN  IF ~l.ok THEN Finish(t, "error", l.err, fs)
                     ELSE Goes(t, "walk",
                               [k.stack EXCEPT ![depth].listed = TRUE,
                                               ![depth].entries = l.entries], fs)
            ELSE IF top.entries = <<>>
            THEN LET r == SftpRmdir(sftp, Up, fs, denied, top.dir)
                 IN  IF ~r.ok THEN Finish(t, "error", r.err, r.fs)
                     ELSE IF depth = 1 THEN Finish(t, "ok", "Deleted", r.fs)
                     ELSE Goes(t, "walk", SubSeq(k.stack, 1, depth - 1), r.fs)
            ELSE LET attr == Head(top.entries)
                     item == sanitize_path(path_join(top.dir, attr.filename))
                     rest == [k.stack EXCEPT ![depth].entries = Tail(top.entries)]
                 IN  IF attr.kind = "dir"
                     THEN Goes(t, "walk", Append(rest, [dir |-> item, listed |-> FALSE,
                                                        entries |-> <<>>]), fs)
                     ELSE LET r == SftpRemove(sftp, Up, fs, denied, item)
                          IN  IF r.ok THEN Goes(t, "walk", rest, r.fs)
                              ELSE Finish(t, "error", r.err, r.fs)

\* a remote that holds the directory /a with the file /a/a
ServeRemote ==
    Put(Put(EmptyRemote, <<<<"a">>>>, [kind |-> "dir", data |-> <<>>]),
        <<<<"a">>, <<"a">>>>, [kind |-> "file", data |-> <<97>>])

ServePaths == {AbsPath(<<"a">>), AbsPath(<<"a", "a">>), AbsPath(<<"a", "B">>)}

InitServe == InitOn(ServeRemote)

NextServe ==
    \/ Connect
    \/ \E p \in Ports : StartServer(p)
    \/ StopServer
    \/ \E p \in Ports : RestartServer(p)
    \/ \E t \in Threads : StartFlaskServer(t)
    \/ \E t \in Threads, path \in ServePaths : Accept(t, "save", path, <<98>>)
    \/ \E t \in Threads, path \in ServePaths : Accept(t, "delete", path, <<>>)
    \/ \E t \in Threads : SaveStep(t)
    \/ \E t \in Threads : \E ord \in Orders((DOMAIN fs) \ {RootNode}) : DeleteStep(t, ord)

SpecServe == InitServe /\ [][NextServe]_vars

\* C30 as stated: while the dialog holds the server for stopped no thread
\* serves, and at no time do two threads serve.
C30_StoppedServerServesNothing ==
    /\ ~server_running => \A t \in Threads : thread[t] # "serving"
    /\ Cardinality({t \in Threads : thread[t] = "serving"}) <= 1

\* the handler on thread t has made a remote call and has another to make
InUse(t) == task[t].op # "" /\ task[t].pc # "start"

\* C2 as stated: at no moment are two operations between their remote calls
\* on the shared SFTP handle.
C2_OneOperationAtATime ==
    \A t, u \in Threads : t # u => ~(InUse(t) /\ InUse(u))

(***************************************************************************)
(* terminal_stream().generate(), the generator of the streamed response,   *)
(* one call of the channel at a time.  Each operator takes the run r and   *)
(* gives the run after the step.                                           *)
(***************************************************************************)
RecvMax == 1024

HtmlChunk(html) == [html |-> html, error |-> ""]
\* "<br>Error: " + str(e)
ErrorChunk(msg) == [html |-> <<>>, error |-> msg]

\* the generator terminal_stream() hands to Response, for command cmd on
\* thread t; script is what the command will write
new_stream(r, cmd, script, errscript, t) ==
    [NoRun EXCEPT !.pc = "ready", !.gen = ~r.gen, !.cmd = cmd, !.script = script,
                  !.errscript = errscript, !.owner = t]

\* except Exception as e: yield the error text
on_exception_silent(r, msg) == [r EXCEPT !.pc = "failed", !.raised = TRUE]
on_exception(r, msg) ==
    [r EXCEPT !.pc = "failed", !.raised = TRUE, !.chunks = Append(@, ErrorChunk(msg))]

\* the generator returns: the response ends
generator_return_polling(r) == [r EXCEPT !.pc = "poll"]
generator_return(r) == [r EXCEPT !.pc = "done"]

\* get_transport() and open_session()
gen_open(r, ssh, up) ==
    IF CallError(ssh, up) # "" THEN on_exception(r, CallError(ssh, up))
    ELSE [r EXCEPT !.pc = "opened", !.channel = "open"]

\* channel.exec_command(cmd): the command starts
gen_exec(r, ssh, up) ==
    IF CallError(ssh, up) # "" THEN on_exception(r, CallError(ssh, up))
    ELSE [r EXCEPT !.pc = "poll", !.todo = r.script, !.errtodo = r.errscript]

\* recv_ready(), and recv(1024), the decoding, the conversion and the yield
\* when bytes are there; raises: a call of the channel raises
gen_poll_combined(r, raises) ==
    LET all == r.inbuf \o r.in_stderr IN
    IF raises THEN on_exception(r, SocketClosed)
    ELSE IF all = <<>> THEN [r EXCEPT !.pc = "check"]
    ELSE [r EXCEPT !.pc = "check", !.inbuf = <<>>, !.in_stderr = <<>>,
                   !.got = @ \o all,
                   !.chunks = Append(@, HtmlChunk(ansi_convert(Utf8Decode(all))))]

gen_poll(r, raises) ==
    IF raises THEN on_exception(r, SocketClosed)
    ELSE IF r.inbuf = <<>> THEN [r EXCEPT !.pc = "check"]
    ELSE LET n == IF Len(r.inbuf) < RecvMax THEN Len(r.inbuf) ELSE RecvMax
             data == SubSeq(r.inbuf, 1, n)
         IN  IF data = <<>> THEN [r EXCEPT !.pc = "drain"]
             ELSE [r EXCEPT !.pc = "check",
                            !.inbuf = SubSeq(r.inbuf, n + 1, Len(r.inbuf)),
                            !.got = @ \o data,
                            !.chunks = Append(@, HtmlChunk(ansi_convert(Utf8Decode(data))))]

\* exit_status_ready(): the exit status has arrived or the channel is closed
gen_check_ignoring_exit(r, up, raises) ==
    IF raises THEN on_exception(r, SocketClosed) ELSE [r EXCEPT !.pc = "sleep"]

gen_check(r, up, raises) ==
    IF raises THEN on_exception(r, SocketClosed)
    ELSE IF r.exited \/ r.channel = "closed" \/ ~up THEN [r EXCEPT !.pc = "drain"]
    ELSE [r EXCEPT !.pc = "sleep"]

\* time.sleep(0.1) is over
gen_wake(r) == [r EXCEPT !.pc = "poll"]

\* one step of generate()
generate(r, ssh, up, raises) ==
    IF r.pc = "ready" THEN gen_open(r, ssh, up)
    ELSE IF r.pc = "opened" THEN gen_exec(r, ssh, up)
    ELSE IF r.pc = "poll" THEN gen_poll(r, raises)
    ELSE IF r.pc = "check" THEN gen_check(r, up, raises)
    ELSE IF r.pc = "sleep" THEN gen_wake(r)
    ELSE generator_return(r)

LoopPcs == {"poll", "check", "sleep"}
StepPcs == {"ready", "opened", "drain", "failed"} \cup LoopPcs

(***************************************************************************)
(* Streaming: commands are streamed, one at a time; the command writes,    *)
(* exits, and the remote closes the channel.                               *)
(***************************************************************************)
StreamOthers ==
    <<global_ssh_client, global_sftp_client, link, fs, denied, localTmp, saved,
      server_running, flask_server, server_thread, thread, port, task, streams, once,
      login>>

\* what a streamed command writes: nothing, "A<", "e" with an acute accent, and
\* a red "A"
StreamOutputs == {<<>>, <<65, 60>>, <<195, 169>>, <<27, 91, 51, 49, 109, 65>>}
\* what it writes to standard error: nothing, "!"
StreamErrors == {<<>>, <<33>>}

\* terminal_stream() answers a request
StreamRequest(cmd, script, errscript) ==
    LET r == terminal_stream(global_ssh_client, cmd) IN
    /\ stream.pc \in {"none", "done"}
    /\ req' = [Request("stream") EXCEPT !.path = cmd, !.out = script, !.err = errscript]
    /\ resp' = r
    /\ stream' = IF r.status = "stream"
                 THEN new_stream(stream, cmd, script, errscript, NoThread)
                 ELSE stream
    /\ UNCHANGED StreamOthers

\* the gateway takes the next item of the generator
Generate(raises) ==
    /\ stream.pc \in StepPcs
    /\ raises => (~Up /\ stream.pc \in {"poll", "check"})
    /\ stream' = generate(stream, global_ssh_client, Up, raises)
    /\ UNCHANGED <<StreamOthers, req, resp>>

\* k bytes of what the command writes arrive
Arrive(k) ==
    /\ stream.pc \in LoopPcs /\ Up /\ stream.channel = "open"
    /\ k \in 1..Len(stream.todo)
    /\ stream' = [stream EXCEPT !.inbuf = @ \o SubSeq(stream.todo, 1, k),
                                !.todo = SubSeq(@, k + 1, Len(@))]
    /\ UNCHANGED <<StreamOthers, req, resp>>

\* k bytes of what the command writes to standard error arrive
ArriveStderr(k) ==
    /\ stream.pc \in LoopPcs /\ Up /\ stream.channel = "open"
    /\ k \in 1..Len(stream.errtodo)
    /\ stream' = [stream EXCEPT !.in_stderr = @ \o SubSeq(stream.errtodo, 1, k),
                                !.errtodo = SubSeq(@, k + 1, Len(@))]
    /\ UNCHANGED <<StreamOthers, req, resp>>

\* the command has written all and exits: its exit status arrives
RemoteExit ==
    /\ stream.pc \in LoopPcs /\ Up /\ stream.channel = "open"
    /\ stream.todo = <<>> /\ stream.errtodo = <<>> /\ ~stream.exited
    /\ stream' = [stream EXCEPT !.exited = TRUE]
    /\ UNCHANGED <<StreamOthers, req, resp>>

\* the remote closes the channel of a command that has exited
RemoteClose ==
    /\ Up /\ stream.channel = "open" /\ stream.exited
    /\ stream' = [stream EXCEPT !.channel = "closed"]
    /\ UNCHANGED <<StreamOthers, req, resp>>

NextStream ==
    \/ Connect
    \/ Break
    \/ \E cmd \in Commands, script \in StreamOutputs, errscript \in StreamErrors :
          StreamRequest(cmd, script, errscript)
    \/ \E raises \in BOOLEAN : Generate(raises)
    \/ \E k \in 1..Len(stream.todo) : Arrive(k)
    \/ \E k \in 1..Len(stream.errtodo) : ArriveStderr(k)
    \/ RemoteExit
    \/ RemoteClose

SpecStream == Init /\ [][NextStream]_vars

\* one command that writes "A<", streamed again and again
NextStreamFair ==
    \/ Connect
    \/ Break
    \/ StreamRequest(<<"l", "s">>, <<65, 60>>, <<>>)
    \/ \E raises \in BOOLEAN : Generate(raises)
    \/ \E k \in 1..Len(stream.todo) : Arrive(k)
    \/ RemoteExit
    \/ RemoteClose

\* the thread that serves the response goes on taking items of the generator
SpecStreamFair ==
    /\ Init
    /\ [][NextStreamFair]_vars
    /\ WF_vars(\E raises \in BOOLEAN : Generate(raises))

(***************************************************************************)
(* Serving streams: terminal_stream() on a server thread.  The thread that *)
(* took the request runs the generator until it returns.                   *)
(***************************************************************************)
ServeOthers ==
    <<global_ssh_client, global_sftp_client, link, fs, denied, localTmp, req, saved, login,
      server_running, flask_server, server_thread, thread, port, streams, once>>

\* serve_forever on thread t takes a request of terminal_stream()
AcceptStream(t, cmd, script) ==
    LET r == terminal_stream(global_ssh_client, cmd) IN
    /\ thread[t] = "serving"
    /\ task[t] = NoTask
    /\ stream.pc \in {"none", "done"}
    /\ resp' = r
    /\ IF r.status = "stream"
       THEN /\ task' = [task EXCEPT ![t] = [NoTask EXCEPT !.op = "stream", !.path = cmd,
                                                          !.pc = "start"]]
            /\ stream' = new_stream(stream, cmd, script, <<>>, t)
       ELSE UNCHANGED <<task, stream>>
    /\ UNCHANGED ServeOthers

\* thread t takes the next item of the generator; when the generator has
\* returned the request is over
StreamStep(t, raises) ==
    LET r == generate(stream, global_ssh_client, Up, raises) IN
    /\ task[t].op = "stream"
    /\ stream.owner = t
    /\ raises => (~Up /\ stream.pc \in {"poll", "check"})
    /\ stream' = r
    /\ task' = IF r.pc = "done" THEN [task EXCEPT ![t] = NoTask] ELSE task
    /\ UNCHANGED <<ServeOthers, resp>>

NextServeStream ==
    \/ Connect
    \/ Break
    \/ \E p \in Ports : StartServer(p)
    \/ StopServer
    \/ \E t \in Threads : StartFlaskServer(t)
    \/ \E t \in Threads : Accept(t, "save", AbsPath(<<"a", "a">>), <<98>>)
    \/ \E t \in Threads : SaveStep(t)
    \/ \E t \in Threads, cmd \in Commands : AcceptStream(t, cmd, <<65, 60>>)
    \/ \E t \in Threads, raises \in BOOLEAN : StreamStep(t, raises)
    \/ \E k \in 1..Len(stream.todo) : Arrive(k)
    \/ RemoteExit
    \/ RemoteClose

SpecServeStream == InitServe /\ [][NextServeStream]_vars

\* C20 as stated: while a streamed command sleeps between its polls, the
\* server that carries the stream is free to take a filesystem request.
C20_StreamLeavesServerFree ==
    \A t \in Threads :
        (thread[t] = "serving" /\ stream.owner = t /\ stream.pc = "sleep") =>
            task[t] = NoTask

(***************************************************************************)
(* The states of a streamed run.                                           *)
(***************************************************************************)
StreamState(r) ==
    IF r.pc \in {"ready", "opened"} THEN "Opening"
    ELSE IF r.pc \in LoopPcs THEN "Streaming"
    ELSE IF r.pc = "drain" THEN "Draining"
    ELSE IF r.pc = "failed" THEN "Failed"
    ELSE IF r.pc = "done" THEN "Closed"
    ELSE "None"

StreamEdges ==
    {<<"Opening", "Streaming">>, <<"Streaming", "Draining">>, <<"Draining", "Closed">>,
     <<"Opening", "Failed">>, <<"Streaming", "Failed">>, <<"Draining", "Failed">>,
     <<"Failed", "Closed">>}

ErrorChunks(r) == {i \in 1..Len(r.chunks) : r.chunks[i].error # ""}

RECURSIVE Markup(_)
\* the markup of the chunks, one after the other
Markup(chunks) ==
    IF chunks = <<>> THEN <<>> ELSE Head(chunks).html \o Markup(Tail(chunks))

\* C12: a streamed run moves only Opening -> Streaming -> Draining -> Closed,
\* or from any of these to Failed and then to Closed; once Closed the run stays
\* Closed and emits no further chunk.
C12_StreamStateMachine ==
    [][stream'.gen = stream.gen =>
          /\ \/ StreamState(stream') = StreamState(stream)
             \/ <<StreamState(stream), StreamState(stream')>> \in StreamEdges
          /\ StreamState(stream) = "Closed" =>
                /\ StreamState(stream') = "Closed"
                /\ stream'.chunks = stream.chunks]_vars

\* a run that was opened, streamed two chunks, drained and closed
C12_Witness ==
    /\ stream.pc = "done" /\ ~stream.raised
    /\ Len(stream.chunks) = 2 /\ stream.got = stream.script

\* C13: a run in which a call of the transport raised has emitted exactly one
\* chunk with the error's text, as its last chunk, and is Failed or Closed; a
\* run in which nothing raised has emitted no error chunk.
C13_StreamFailureOneErrorChunk ==
    IF stream.raised
    THEN /\ StreamState(stream) \in {"Failed", "Closed"}
         /\ ErrorChunks(stream) = {Len(stream.chunks)}
         /\ stream.chunks # <<>>
         /\ stream.chunks[Len(stream.chunks)].error = SocketClosed
    ELSE ErrorChunks(stream) = {}

\* the connection broke after a chunk was streamed, and the run is Closed
C13_Witness ==
    /\ stream.raised /\ stream.pc = "done"
    /\ Len(stream.chunks) = 2 /\ stream.chunks[1].error = ""

\* C14 as stated: whenever a streamed run is Closed, on a connection that is
\* up, its channel has been closed.
C14_ClosedRunChannelClosed ==
    (stream.pc = "done" /\ Up) => stream.channel # "open"

\* C15 as stated: when a run ends without failure having received all the
\* command wrote, the markup of its chunks, one after the other, is the
\* conversion of the whole output in one pass.
C15_ChunkedEqualsOnePass ==
    (stream.pc = "done" /\ ~stream.raised /\ stream.got = stream.script) =>
        Markup(stream.chunks) = ansi_convert(Utf8Decode(stream.script))

\* C21 as stated: when a run whose command exited on a live connection is
\* Closed without a failure, all the command wrote to its output has been
\* received and emitted.
C21_AllOutputEmitted ==
    (stream.pc = "done" /\ ~stream.raised /\ stream.exited /\ Up) =>
        stream.got = stream.script

\* C22: once the exit status of a streamed command has arrived the run
\* becomes Closed, and the response ends; and a run leaves Streaming only when
\* the exit status has arrived or the connection is down.
C22_StreamEndsWithProcess ==
    /\ stream.exited ~> stream.pc = "done"
    /\ [][(stream.pc \in LoopPcs /\ stream'.pc \notin LoopPcs) =>
              (stream.exited \/ ~Up)]_vars

\* a command exited on a live connection and its run is Closed
C22_Witness ==
    /\ stream.exited /\ stream.pc = "done" /\ ~stream.raised /\ Up
    /\ stream.got = stream.script /\ stream.script # <<>>

\* C16 as stated: a streamed operation never answers with the status envelope.
C16_StreamNeverEnvelope ==
    req.op = "stream" => resp.status = "stream"

\* C16: a streamed operation called with a connection and a command answers
\* with a stream, never the status envelope, and an error of the run is a chunk
\* of the stream, after which the stream ends; called without a connection or
\* without a command it answers with the error envelope and starts no run.
C16_StreamEnvelopeBeforeRunOnly ==
    req.op = "stream" =>
        IF req.ssh = "None" \/ req.path = <<>>
        THEN /\ resp.status = "error"
             /\ resp.message \in {"SSH not connected!", "No command provided"}
             /\ stream.pc \in {"none", "done"}
        ELSE /\ resp.status = "stream"
             /\ resp.code = 200
             /\ stream.pc # "none" /\ stream.cmd = req.path
             /\ (stream.raised /\ stream.pc = "done") =>
                    stream.chunks[Len(stream.chunks)].error # ""

\* a stream answered with code 200 whose run failed at its first call
C16_Witness ==
    /\ req.op = "stream" /\ resp.status = "stream"
    /\ stream.raised /\ stream.pc = "done" /\ Len(stream.chunks) = 1

(***************************************************************************)
(* Standard error: a command that writes to both of its outputs, streamed  *)
(* and run to its end.                                                     *)
(***************************************************************************)
\* what the command writes to its output: nothing, "A"
StderrOutputs == {<<>>, <<65>>}
\* and to standard error: "!", "!!"
StderrErrors == {<<33>>, <<33, 33>>}

NextStderr ==
    \/ Connect
    \/ Break
    \/ \E script \in StderrOutputs, errscript \in StderrErrors :
          StreamRequest(<<"l", "s">>, script, errscript)
    \/ \E raises \in BOOLEAN : Generate(raises)
    \/ \E k \in 1..Len(stream.todo) : Arrive(k)
    \/ \E k \in 1..Len(stream.errtodo) : ArriveStderr(k)
    \/ RemoteExit
    \/ RemoteClose
    \/ \E out \in StderrOutputs, err \in StderrErrors :
          TerminalExecute(<<"l", "s">>, out, err, 0)

SpecStderr == Init /\ [][NextStderr]_vars

\* the bytes of the chunks' markup
MarkupBytes(chunks) == {Markup(chunks)[i] : i \in 1..Len(Markup(chunks))}

\* C28: what a streamed run has received is the beginning of what its
\* command wrote to its output, and no byte the command wrote to standard
\* error is in any of its chunks; the answer of a command run to its end holds
\* what it wrote to its output, then what it wrote to standard error.
C28_StreamLeavesStderr ==
    /\ IsPrefix(stream.got, stream.script)
    /\ MarkupBytes(stream.chunks) \cap {33} = {}
    /\ (Executed /\ req.link = "up") =>
          /\ resp.status = "ok"
          /\ resp.content = ansi_convert(Utf8Decode(req.out) \o Utf8Decode(req.err))
          /\ resp.content = req.out \o req.err

\* a streamed command whose "!" on standard error arrived before its "A" was
\* read has ended
C28_Witness ==
    /\ stream.pc = "done" /\ stream.in_stderr = <<33>> /\ stream.exited
    /\ stream.got = <<65>> /\ Markup(stream.chunks) = <<65>>

(***************************************************************************)
(* terminal_execute(), one call of its channel at a time.  exec_command    *)
(* opens a channel whose window the remote may fill with what the command  *)
(* writes to either output; the window opens again by what is read.        *)
(***************************************************************************)
\* the window of a channel (paramiko: 2 MiB), and the most a command writes
MaxWindow == 2
MaxWrites == 3

\* the byte of a write: "A" on the output, "!" on standard error
WriteByte(w) == IF w = "out" THEN 65 ELSE 33
\* what a command writes, in the order it writes
WriteScripts == UNION {[1..n -> {"out", "err"}] : n \in 0..MaxWrites}

OnceOthers ==
    <<global_ssh_client, global_sftp_client, link, fs, denied, localTmp, saved,
      server_running, flask_server, server_thread, thread, port, task, stream, streams,
      login>>

\* terminal_execute() up to exec_command(cmd)
ExecuteStart(cmd, writes) ==
    LET early == terminal_execute(global_ssh_client, Up, cmd, <<>>, <<>>) IN
    /\ once.pc \in {"none", "returned"}
    /\ req' = [Request("execute") EXCEPT !.path = cmd]
    /\ IF early.status = "error"
       THEN /\ resp' = early
            /\ UNCHANGED once
       ELSE /\ resp' = NoResp
            /\ once' = [NoOnce EXCEPT !.pc = "read_stdout", !.cmd = cmd, !.writes = writes,
                                      !.window = MaxWindow]
    /\ UNCHANGED OnceOthers

\* the command writes its next byte, when the window lets it
CommandWrites ==
    /\ once.pc \in {"read_stdout", "read_stderr"}
    /\ once.writes # <<>>
    /\ once.window > 0
    /\ once' = [once EXCEPT
                   !.writes = Tail(@),
                   !.window = @ - 1,
                   !.in_stdout = IF Head(once.writes) = "out"
                                 THEN Append(@, WriteByte("out")) ELSE @,
                   !.in_stderr = IF Head(once.writes) = "err"
                                 THEN Append(@, WriteByte("err")) ELSE @]
    /\ UNCHANGED <<OnceOthers, req, resp>>

\* the command has written all and ends: both outputs are at their end
CommandEnds ==
    /\ once.pc \in {"read_stdout", "read_stderr"}
    /\ once.writes = <<>>
    /\ ~once.eof
    /\ once' = [once EXCEPT !.eof = TRUE]
    /\ UNCHANGED <<OnceOthers, req, resp>>

\* stdout.read(): takes what has arrived, and ends at the end of the output
ReadStdout ==
    /\ once.pc = "read_stdout"
    /\ once.in_stdout # <<>> \/ once.eof
    /\ once' = IF once.in_stdout # <<>>
               THEN [once EXCEPT !.out = @ \o once.in_stdout, !.in_stdout = <<>>,
                                 !.window = @ + Len(once.in_stdout)]
               ELSE [once EXCEPT !.pc = "read_stderr"]
    /\ UNCHANGED <<OnceOthers, req, resp>>

\* stderr.read(), the conversion and the answer
ReadStderr ==
    /\ once.pc = "read_stderr"
    /\ once.in_stderr # <<>> \/ once.eof
    /\ IF once.in_stderr # <<>>
       THEN /\ once' = [once EXCEPT !.err = @ \o once.in_stderr, !.in_stderr = <<>>,
                                    !.window = @ + Len(once.in_stderr)]
            /\ UNCHANGED resp
       ELSE /\ once' = [once EXCEPT !.pc = "returned"]
            /\ resp' = terminal_execute(global_ssh_client, TRUE, once.cmd, once.out, once.err)
    /\ UNCHANGED <<OnceOthers, req>>

NextOnce ==
    \/ Connect
    \/ \E cmd \in Commands, writes \in WriteScripts : ExecuteStart(cmd, writes)
    \/ CommandWrites
    \/ CommandEnds
    \/ ReadStdout
    \/ ReadStderr

\* the command and the handler's thread go on when they can
SpecOnceFair ==
    /\ Init
    /\ [][NextOnce]_vars
    /\ WF_vars(CommandWrites) /\ WF_vars(CommandEnds)
    /\ WF_vars(ReadStdout) /\ WF_vars(ReadStderr)

\* C23 as stated: a command run to its end, which goes on whenever its output
\* is taken, is answered.
C23_RunOnceReturns ==
    once.pc = "read_stdout" ~> once.pc = "returned"

(***************************************************************************)
(* Creating: entries are made and files uploaded under a directory, a file *)
(* and a path that does not exist.                                         *)
(***************************************************************************)
NextCreate ==
    \/ Connect
    \/ Break
    \/ \E parent_path \in ServePaths, name \in TwoNames, t \in {"file", "folder"} :
          AjaxNewItem(parent_path, name, t)
    \/ \E parent_path \in ServePaths, name \in TwoNames :
          AjaxUpload(parent_path, <<[filename |-> name, data |-> <<97>>]>>, 1, "ok")

SpecCreate == InitServe /\ [][NextCreate]_vars

\* the request made an entry, or tried to
Creating == req.op \in {"new_item", "upload"} /\ Len(resp.calls) > 1
\* what the parent path of the request named when the request came
ParentKind ==
    LET n == NodeOf(req.path) IN
    IF req.link = "up" /\ NamesNode(req.fs, req.path, n) THEN req.fs[n].kind ELSE "none"
\* the name the request gave to the new entry
NewName == IF req.op = "upload" THEN req.parts[1].filename ELSE req.name
\* the path of the new entry in the directory dir
EntryIn(dir) == sanitize_path(path_join(dir, NewName))

\* C25 as stated: the new entry is made in the parent of parentPath when
\* parentPath names a file or does not exist, in parentPath when it names a
\* directory.
C25_ContainingDirectory ==
    Creating =>
        resp.calls[2].path =
            EntryIn(IF ParentKind = "dir" THEN req.path ELSE path_dirname(req.path))

\* C25: the new entry is made in the parent of parentPath when parentPath
\* names a file, and in parentPath itself when it names a directory and when
\* the stat of parentPath fails.
C25_ContainingDirectoryAsGiven ==
    Creating =>
        /\ resp.calls[1].fn = "stat" /\ resp.calls[1].path = req.path
        /\ resp.calls[1].ok = (ParentKind # "none")
        /\ resp.calls[2].path =
              EntryIn(IF ParentKind = "file" THEN path_dirname(req.path) ELSE req.path)

\* a folder was to be made under a path that does not exist, and was not
C25_Witness ==
    /\ Creating /\ req.op = "new_item" /\ req.link = "up"
    /\ req.path = AbsPath(<<"a", "B">>) /\ ParentKind = "none"
    /\ req.name = <<"a">>
    /\ resp.status = "error" /\ resp.message = NoSuchFile
    /\ resp.calls[2].path = AbsPath(<<"a", "B", "a">>)

(***************************************************************************)
(* Backslashes: requests whose paths and names hold a backslash.           *)
(***************************************************************************)
\* "/", "/a" and "\a"
BackslashPaths == {<<SLASH>>, AbsPath(<<"a">>), <<BACKSLASH, "a">>}
\* "a" and "\B"
BackslashNames == {<<"a">>, <<BACKSLASH, "B">>}

NextBackslash ==
    \/ Connect
    \/ \E path \in BackslashPaths : \E ord \in OrdersIn(path) : AjaxList(path, ord)
    \/ \E path \in BackslashPaths : AjaxFile(path)
    \/ \E path \in BackslashPaths : AjaxSave(path, <<97>>)
    \/ \E path \in BackslashPaths : \E ord \in OrdersUnder(path) : AjaxDelete(path, ord)
    \/ \E parent_path \in BackslashPaths, name \in BackslashNames :
          AjaxNewItem(parent_path, name, "folder")
    \/ \E old_path \in BackslashPaths, new_name \in BackslashNames :
          AjaxRename(old_path, new_name)

SpecBackslash == Init /\ [][NextBackslash]_vars

HasBackslash(p) == \E i \in 1..Len(p) : p[i] = BACKSLASH

\* C26 as stated: no path of a remote call of the response, and no path the
\* response returns, holds a backslash.
C26_NoBackslash ==
    /\ \A i \in 1..Len(resp.calls) :
          ~HasBackslash(resp.calls[i].path) /\ ~HasBackslash(resp.calls[i].to)
    /\ \A i \in 1..Len(resp.directories) : ~HasBackslash(resp.directories[i].path)
    /\ \A i \in 1..Len(resp.files) : ~HasBackslash(resp.files[i].path)

(***************************************************************************)
(* Streams side by side: each serving thread runs the generator of its own *)
(* request; two threads serve when a stopped server went on serving.       *)
(***************************************************************************)
StreamsOthers ==
    <<global_ssh_client, global_sftp_client, link, fs, denied, localTmp, req, saved, login,
      server_running, flask_server, server_thread, thread, port, stream, once>>

\* two commands and what they write: "AB" and "C"
StreamCommands ==
    {[cmd |-> <<"l", "s">>, script |-> <<65, 66>>],
     [cmd |-> <<"p", "s">>, script |-> <<67>>]}

\* what waits on the channel the generator of thread t opened: `channel` is
\* a local of generate()
own_channel_first(ss, t) == ss[1].inbuf
own_channel(ss, t) == ss[t].inbuf

\* serve_forever on thread t takes a request of terminal_stream(); each
\* server is sent one such request
AcceptStreamOn(t, cmd, script) ==
    LET r == terminal_stream(global_ssh_client, cmd) IN
    /\ thread[t] = "serving"
    /\ task[t] = NoTask
    /\ streams[t].pc = "none"
    /\ resp' = r
    /\ IF r.status = "stream"
       THEN /\ task' = [task EXCEPT ![t] = [NoTask EXCEPT !.op = "stream", !.path = cmd,
                                                          !.pc = "start"]]
            /\ streams' = [streams EXCEPT ![t] = new_stream(@, cmd, script, <<>>, t)]
       ELSE UNCHANGED <<task, streams>>
    /\ UNCHANGED StreamsOthers

\* thread t takes the next item of its generator
StreamStepOn(t) ==
    LET r == generate([streams[t] EXCEPT !.inbuf = own_channel(streams, t)],
                      global_ssh_client, Up, FALSE)
    IN
    /\ task[t].op = "stream"
    /\ streams[t].pc \in StepPcs
    /\ streams' = [streams EXCEPT ![t] = r]
    /\ task' = IF r.pc = "done" THEN [task EXCEPT ![t] = NoTask] ELSE task
    /\ UNCHANGED <<StreamsOthers, resp>>

\* k bytes of what the command of thread t's stream writes arrive
ArriveOn(t, k) ==
    /\ streams[t].pc \in LoopPcs /\ Up
    /\ k \in 1..Len(streams[t].todo)
    /\ streams' = [streams EXCEPT ![t].inbuf = @ \o SubSeq(streams[t].todo, 1, k),
                                  ![t].todo = SubSeq(@, k + 1, Len(@))]
    /\ UNCHANGED <<StreamsOthers, resp, task>>

\* the command of thread t's stream has written all and exits
RemoteExitOn(t) ==
    /\ streams[t].pc \in LoopPcs /\ Up
    /\ streams[t].todo = <<>> /\ ~streams[t].exited
    /\ streams' = [streams EXCEPT ![t].exited = TRUE]
    /\ UNCHANGED <<StreamsOthers, resp, task>>

NextStreams ==
    \/ Connect
    \/ \E p \in Ports : StartServer(p)
    \/ StopServer
    \/ \E t \in Threads : StartFlaskServer(t)
    \/ \E t \in Threads, c \in StreamCommands : AcceptStreamOn(t, c.cmd, c.script)
    \/ \E t \in Threads : StreamStepOn(t)
    \/ \E t \in Threads : \E k \in 1..Len(streams[t].todo) : ArriveOn(t, k)
    \/ \E t \in Threads : RemoteExitOn(t)

SpecStreams == Init /\ [][NextStreams]_vars

\* C27: what each stream has received is the beginning of what its own
\* command wrote, and the markup of its chunks is the conversion of what it
\* received, piece by piece in the order received.
C27_StreamsKeptApart ==
    \A t \in Threads :
        /\ IsPrefix(streams[t].got, streams[t].script)
        /\ Markup(streams[t].chunks) = streams[t].got
        /\ streams[t].pc # "none" =>
              \E c \in StreamCommands : c.cmd = streams[t].cmd /\ c.script = streams[t].script

\* two streams of two commands run side by side: the first has emitted "A" and
\* has "B" waiting, the second has "C" waiting
C27_Witness ==
    /\ streams[1].cmd = <<"l", "s">> /\ streams[2].cmd = <<"p", "s">>
    /\ streams[1].pc \in LoopPcs /\ streams[2].pc \in LoopPcs
    /\ Len(streams[1].chunks) = 1 /\ streams[1].got = <<65>> /\ streams[1].inbuf = <<66>>
    /\ streams[2].chunks = <<>> /\ streams[2].inbuf = <<67>>

=============================================================================
